---- MODULE Spec2Model ----
(***************************************************************************)
(* RequestProbe: the field-necessity solver (cumulative removal), the      *)
(* retrying HTTP engine and the response validator, as state machines.     *)
(*                                                                         *)
(* Strings whose characters matter (bodies, needles) are sequences of      *)
(* one-character strings; names (header names, cookie names, messages)     *)
(* are TLA+ strings with the conversions on them given as tables.          *)
(***************************************************************************)
EXTENDS Integers, Sequences, FiniteSets, TLC

VARIABLES
    pc,              \* position of the running TestFieldNecessity call
    req,             \* originalReq of the running call
    config,          \* its ValidationConfig
    S,               \* cumulativeState
    cumulativeResults,
    legacyResults,
    headerOrder,     \* getOriginalHeaderOrder(originalReq)
    cookieOrder,     \* getOriginalCookieOrder(originalReq)
    hi,              \* index of the next header in headerOrder
    ci,              \* index of the next cookie in cookieOrder
    currentStep,
    sent,            \* the TestRequestWithRetry calls of the running call, in order
    single,          \* the request and response of the TestSingleRequest after the call
    result,          \* the BatchTestResult being built
    retErr,          \* the error returned with it
    cancelledAt,     \* probes sent when the caller cancelled the context, -1 if not cancelled
    deterministic,   \* the server answers by the request on the wire alone
    events,          \* the TestProgress records handed to progressCallback, in order
    rMax,            \* TestRequestWithRetry: config.MaxRetries
    maxRetries,      \* TestRequestWithRetry: the local maxRetries
    attempt,         \* TestRequestWithRetry: the loop variable
    attemptsMade,    \* TestRequestWithRetry: TestRequest calls made
    slept,           \* TestRequestWithRetry: the waits, in milliseconds
    rpc,             \* TestRequestWithRetry: position
    rRet,            \* TestRequestWithRetry: what it returned
    callee,          \* the pure operation a caller is about to call, "" if none
    callArgs,        \* its arguments
    callRet,         \* what it returned
    returned,        \* it has returned
    clientTimeout,   \* RequestTester.client.Timeout, in seconds
    calls            \* the service's test calls so far, each with the timeout of its requests

batchVars == <<pc, req, config, S, cumulativeResults, legacyResults, headerOrder,
               cookieOrder, hi, ci, currentStep, sent, single, result, retErr,
               cancelledAt, deterministic, events>>
retryVars == <<rMax, maxRetries, attempt, attemptsMade, slept, rpc, rRet>>
clientVars == <<clientTimeout, calls>>
callVars == <<callee, callArgs, callRet, returned, clientVars>>
vars == <<batchVars, retryVars, callVars>>

---------------------------------------------------------------------------
(* Bounds of the model *)

MaxFields == 3
MaxRetriesBound == 5
MaxNeedles == 2
MaxTokens == 3
MaxArgs == 3
MaxWords == 3
MaxFlagWords == 4
MaxLeading == 1
MaxCalls == 3
MaxURLPieces == 6

(* Program constants *)

DefaultMaxRetries == 3
BackoffBaseMs == 100
DefaultTimeout == 30

HeaderPool == {"User-Agent", "user-agent", "X-A"}
CookiePool == {"sid", "tok"}
BatchStatuses == {200, 300}
BatchBodies == {<<>>, <<"o", "k">>}

---------------------------------------------------------------------------
(* Strings *)

\* strings.ToLower on a header name
ToLower(name) ==
    CASE name = "User-Agent" -> "user-agent"
      [] name = "user-agent" -> "user-agent"
      [] name = "X-A" -> "x-a"
      [] name = "Cookie" -> "cookie"
      [] OTHER -> name

\* strings.ToLower on one character
LowerChar(c) ==
    CASE c = "O" -> "o"
      [] c = "K" -> "k"
      [] OTHER -> c

\* strings.ToLower on a text
LowerText(t) == [i \in 1..Len(t) |-> LowerChar(t[i])]

\* strings.Contains
Contains(text, needle) ==
    \E i \in 0..(Len(text) - Len(needle)) :
        \A j \in 1..Len(needle) : text[i + j] = needle[j]

\* Go maps as functions
MapDelete(m, k) == [x \in DOMAIN m \ {k} |-> m[x]]
MapSet(m, k, v) == [x \in DOMAIN m \cup {k} |-> IF x = k THEN v ELSE m[x]]
EmptyMap == [x \in {} |-> ""]

---------------------------------------------------------------------------
(* Validator: backend/core/validator/safe_validator.go *)

NoError == "nil"
ErrConfig == "validation config error: no validation rule enabled"
ErrExprEmpty == "expression must not be empty"
ErrExprSyntax == "expression syntax error"
ErrExprNotAllowed == "expression not allowed"
ErrExprFormat == "unsupported expression format"

\* An expression is the sequence of its tokens, each with its source text.
Num(n, txt) == [k |-> "num", s |-> "", n |-> n, txt |-> txt]
Sel(field, txt) == [k |-> "sel", s |-> field, n |-> 0, txt |-> txt]
Ident(name, txt) == [k |-> "id", s |-> name, n |-> 0, txt |-> txt]
Op(o, txt) == [k |-> "op", s |-> o, n |-> 0, txt |-> txt]
\* a call with literal arguments, by the form of its target n.Fun: an
\* identifier, response.<method>, another selector, a parenthesised identifier
CallIdent(name, txt) == [k |-> "callid", s |-> name, n |-> 0, txt |-> txt]
CallResponse(method, txt) == [k |-> "callsel", s |-> method, n |-> 0, txt |-> txt]
CallSelector(name, txt) == [k |-> "callx", s |-> name, n |-> 0, txt |-> txt]
CallParen(name, txt) == [k |-> "callparen", s |-> name, n |-> 0, txt |-> txt]
CallKinds == {"callid", "callsel", "callx", "callparen"}

\* strconv.Itoa on the status codes of the model
Itoa(n) ==
    CASE n = 199 -> <<"1", "9", "9">>
      [] n = 200 -> <<"2", "0", "0">>
      [] n = 299 -> <<"2", "9", "9">>
      [] n = 300 -> <<"3", "0", "0">>
      [] OTHER -> <<"?">>

allowedFunctions == {"len", "str", "int", "float", "bool", "lower", "upper", "strip",
                     "json"}
allowedOperators == {"==", "!=", "<", "<=", ">", ">=", "&&", "||", "!", "in"}
allowedResponseMethods == {"json"}
allowedFields == {"status_code", "text", "content", "headers", "cookies", "url",
                  "elapsed", "encoding", "reason"}
builtinConstants == {"true", "false", "nil"}
\* the binary operators go/parser accepts between two operands
GoBinaryOps == {"==", "!=", "<", "<=", ">", ">=", "&&", "||", "+", "-", "*", "/"}

\* go/parser.ParseExpr on a flat expression: operand (operator operand)*
ParseExprOK(e) ==
    /\ Len(e) % 2 = 1
    /\ \A i \in 1..Len(e) :
          IF i % 2 = 1 THEN e[i].k \in {"num", "sel", "id"} \cup CallKinds
          ELSE e[i].k = "op" /\ e[i].s \in GoBinaryOps

\* validateASTNode on the tokens of a parsed flat expression
validateASTNode(e) ==
    IF \E i \in 1..Len(e) : e[i].k = "sel" /\ e[i].s \notin allowedFields
        THEN ErrExprNotAllowed
    ELSE IF \E i \in 1..Len(e) : e[i].k = "id" /\ e[i].s \notin ({"response"} \cup builtinConstants)
        THEN ErrExprNotAllowed
    ELSE IF \E i \in 1..Len(e) : e[i].k = "op" /\ e[i].s \notin allowedOperators
        THEN ErrExprNotAllowed
    ELSE IF \E i \in 1..Len(e) : e[i].k = "callid" /\ e[i].s \notin allowedFunctions
        THEN ErrExprNotAllowed
    ELSE IF \E i \in 1..Len(e) : e[i].k = "callsel" /\ e[i].s \notin allowedResponseMethods
        THEN ErrExprNotAllowed
    ELSE IF \E i \in 1..Len(e) : e[i].k = "callx"
        THEN ErrExprNotAllowed
    ELSE NoError

ValidateExpression(e) ==
    IF Len(e) = 0 THEN ErrExprEmpty
    ELSE IF ~ParseExprOK(e) THEN ErrExprSyntax
    ELSE validateASTNode(e)

\* the text of a token run, tokens joined by one blank
RECURSIVE SourceText(_)
SourceText(e) ==
    IF Len(e) = 0 THEN <<>>
    ELSE IF Len(e) = 1 THEN e[1].txt
    ELSE e[1].txt \o <<" ">> \o SourceText(Tail(e))

\* parseValue: an integer, or a string
parseValue(e, response) ==
    IF Len(e) = 1 /\ e[1].k = "num" THEN [t |-> "int", n |-> e[1].n, cs |-> <<>>]
    ELSE IF Len(e) = 1 /\ e[1].k = "sel" /\ e[1].s \in {"text", "content"}
        THEN [t |-> "string", n |-> 0, cs |-> response.Body]
    ELSE IF Len(e) = 1 /\ e[1].k = "sel" /\ e[1].s \in {"headers", "cookies", "url", "elapsed"}
        THEN [t |-> e[1].s, n |-> 0, cs |-> <<>>]
    ELSE [t |-> "string", n |-> 0, cs |-> SourceText(e)]

\* evaluateSimpleExpression: [ok |-> the verdict, err |-> the error]
evaluateSimpleExpression(e, response) ==
    LET expr == [i \in 1..Len(e) |->
                    IF e[i].k = "sel" /\ e[i].s = "status_code"
                    THEN Num(response.StatusCode, Itoa(response.StatusCode))
                    ELSE e[i]]
        eqs == {i \in 1..Len(expr) : expr[i].k = "op" /\ expr[i].s = "=="}
        has(o) == \E i \in 1..Len(expr) : expr[i].k = "op" /\ expr[i].s = o
    IN  IF Cardinality(eqs) = 1
        THEN LET p == CHOOSE i \in eqs : TRUE
                 left == parseValue(SubSeq(expr, 1, p - 1), response)
                 right == parseValue(SubSeq(expr, p + 1, Len(expr)), response)
             IN  [ok |-> left = right, err |-> NoError]
        ELSE IF has("<=")
        THEN [ok |-> response.StatusCode >= 200 /\ response.StatusCode < 300,
              err |-> NoError]
        ELSE [ok |-> FALSE, err |-> ErrExprFormat]

EvaluateExpression(e, response) ==
    IF ValidateExpression(e) # NoError
    THEN [ok |-> FALSE, err |-> ValidateExpression(e)]
    ELSE evaluateSimpleExpression(e, response)

\* strings.Contains(chunk, "response") on the token texts of the model
ContainsResponse(chunk) ==
    chunk \in {"response.status_code", "response.secret", "response.json()",
               "response.exec()"}

\* ExpressionManager.ValidateExpression
ExpressionManagerValidateExpression(e) ==
    IF Len(e) = 0 THEN "the expression must not be empty"
    ELSE IF ~\E i \in 1..Len(SourceText(e)) : ContainsResponse(SourceText(e)[i])
        THEN "the expression must mention the response object"
    ELSE NoError

\* RequestService.ValidateExpression
RequestServiceValidateExpression(e) == ExpressionManagerValidateExpression(e)

\* checkTextMatching
RECURSIVE matchCount(_, _, _)
matchCount(texts, text, caseSensitive) ==
    IF Len(texts) = 0 THEN 0
    ELSE LET searchText == texts[1]
             checkText == IF caseSensitive THEN searchText ELSE LowerText(searchText)
             rest == matchCount(Tail(texts), text, caseSensitive)
         IN  IF searchText # <<>> /\ Contains(text, checkText) THEN 1 + rest ELSE rest

checkTextMatching(tm, responseBody) ==
    IF Len(tm.Texts) = 0 THEN Len(responseBody) > 0
    ELSE LET text == IF tm.CaseSensitive THEN responseBody ELSE LowerText(responseBody)
             n == matchCount(tm.Texts, text, tm.CaseSensitive)
         IN  IF tm.MatchMode = "any" THEN n > 0
             ELSE IF tm.MatchMode = "all" THEN n = Len(tm.Texts)
             ELSE n > 0

\* checkLengthRange with a maxLength of 0 taken as an upper limit
checkLengthRange_ZeroMaxIsALimit(lr, responseBody) ==
    LET length == Len(responseBody)
    IN  IF length < lr.MinLength THEN FALSE
        ELSE IF lr.MaxLength >= 0 /\ length > lr.MaxLength THEN FALSE
        ELSE TRUE

\* checkLengthRange with the upper limit exclusive
checkLengthRange_ExclusiveMax(lr, responseBody) ==
    LET length == Len(responseBody)
    IN  IF length < lr.MinLength THEN FALSE
        ELSE IF lr.MaxLength > 0 /\ length >= lr.MaxLength THEN FALSE
        ELSE TRUE

\* checkLengthRange
checkLengthRange(lr, responseBody) ==
    LET length == Len(responseBody)
    IN  IF length < lr.MinLength THEN FALSE
        ELSE IF lr.MaxLength > 0 /\ length > lr.MaxLength THEN FALSE
        ELSE TRUE

\* EvaluateConfig with a configuration that enables no rule taken as a pass
EvaluateConfig_NoRulePasses(cfg, response) ==
    IF cfg.UseCustomExpr /\ cfg.Expression # <<>>
        THEN EvaluateExpression(cfg.Expression, response)
    ELSE IF response.StatusCode < 200 \/ response.StatusCode >= 300
        THEN [ok |-> FALSE, err |-> NoError]
    ELSE IF cfg.TextMatching.Enabled
        THEN [ok |-> checkTextMatching(cfg.TextMatching, response.Body), err |-> NoError]
    ELSE IF cfg.LengthRange.Enabled
        THEN [ok |-> checkLengthRange(cfg.LengthRange, response.Body), err |-> NoError]
    ELSE [ok |-> TRUE, err |-> NoError]

\* EvaluateConfig with the status code checked before the custom expression
EvaluateConfig_StatusGateFirst(cfg, response) ==
    IF response.StatusCode < 200 \/ response.StatusCode >= 300
        THEN [ok |-> FALSE, err |-> NoError]
    ELSE IF cfg.UseCustomExpr /\ cfg.Expression # <<>>
        THEN EvaluateExpression(cfg.Expression, response)
    ELSE IF cfg.TextMatching.Enabled
        THEN [ok |-> checkTextMatching(cfg.TextMatching, response.Body), err |-> NoError]
    ELSE IF cfg.LengthRange.Enabled
        THEN [ok |-> checkLengthRange(cfg.LengthRange, response.Body), err |-> NoError]
    ELSE [ok |-> FALSE, err |-> ErrConfig]

\* EvaluateConfig: [ok |-> the verdict, err |-> the error]
EvaluateConfig(cfg, response) ==
    IF cfg.UseCustomExpr /\ cfg.Expression # <<>>
        THEN EvaluateExpression(cfg.Expression, response)
    ELSE IF response.StatusCode < 200 \/ response.StatusCode >= 300
        THEN [ok |-> FALSE, err |-> NoError]
    ELSE IF cfg.TextMatching.Enabled
        THEN [ok |-> checkTextMatching(cfg.TextMatching, response.Body), err |-> NoError]
    ELSE IF cfg.LengthRange.Enabled
        THEN [ok |-> checkLengthRange(cfg.LengthRange, response.Body), err |-> NoError]
    ELSE [ok |-> FALSE, err |-> ErrConfig]

---------------------------------------------------------------------------
(* The requests and configurations the operations are called with *)

\* the values a header or cookie of the pool may carry
FieldValues(name) ==
    CASE name = "User-Agent" -> {"UA/1", ""}
      [] name = "user-agent" -> {"ua/2"}
      [] name = "X-A" -> {"1"}
      [] name = "sid" -> {"s1"}
      [] name = "tok" -> {"t1"}
      [] OTHER -> {"v"}

AllValues == UNION {FieldValues(n) : n \in HeaderPool \cup CookiePool}

MapsOver(pool) ==
    UNION {{m \in [D -> AllValues] : \A n \in D : m[n] \in FieldValues(n)} :
           D \in SUBSET pool}

RequestShapes ==
    { [Method |-> "POST", URL |-> "https://api.test/v1?x=1", Body |-> "{}",
       QueryParams |-> [q \in {"x"} |-> "1"], ContentType |-> "application/json"],
      [Method |-> "GET", URL |-> "http://[bad", Body |-> "",
       QueryParams |-> EmptyMap, ContentType |-> ""] }

Requests ==
    { r \in { [Method |-> sh.Method, URL |-> sh.URL, Headers |-> hs, Cookies |-> cs,
                Body |-> sh.Body, QueryParams |-> sh.QueryParams,
                ContentType |-> sh.ContentType] :
              sh \in RequestShapes, hs \in MapsOver(HeaderPool),
              cs \in MapsOver(CookiePool) } :
      Cardinality(DOMAIN r.Headers) + Cardinality(DOMAIN r.Cookies) <= MaxFields }

NilRequest ==
    [Method |-> "<nil>", URL |-> "", Headers |-> EmptyMap, Cookies |-> EmptyMap,
     Body |-> "", QueryParams |-> EmptyMap, ContentType |-> ""]

\* the validation part of a ValidationConfig
ExprStatusIs200 ==
    << Sel("status_code", <<"response.status_code">>), Op("==", <<"==">>),
       Num(200, Itoa(200)) >>
ExprTextOnly == << Sel("text", <<"response.text">>) >>

NoTextMatching ==
    [Enabled |-> FALSE, Texts |-> <<>>, MatchMode |-> "all", CaseSensitive |-> FALSE]
NoLengthRange == [Enabled |-> FALSE, MinLength |-> 0, MaxLength |-> -1]

ValidationModes ==
    { [UseCustomExpr |-> FALSE, Expression |-> <<>>,
       TextMatching |-> NoTextMatching, LengthRange |-> NoLengthRange],
      [UseCustomExpr |-> FALSE, Expression |-> <<>>,
       TextMatching |-> [Enabled |-> TRUE, Texts |-> << <<"O", "K">> >>,
                         MatchMode |-> "all", CaseSensitive |-> FALSE],
       LengthRange |-> NoLengthRange],
      [UseCustomExpr |-> TRUE, Expression |-> ExprStatusIs200,
       TextMatching |-> NoTextMatching, LengthRange |-> NoLengthRange],
      [UseCustomExpr |-> TRUE, Expression |-> ExprTextOnly,
       TextMatching |-> NoTextMatching, LengthRange |-> NoLengthRange] }

Configs ==
    { [MaxRetries |-> DefaultMaxRetries, PreserveUserAgent |-> p,
       UseCustomExpr |-> v.UseCustomExpr, Expression |-> v.Expression,
       TextMatching |-> v.TextMatching, LengthRange |-> v.LengthRange] :
      p \in BOOLEAN, v \in ValidationModes }

NilConfig ==
    [MaxRetries |-> 0, PreserveUserAgent |-> FALSE, UseCustomExpr |-> FALSE,
     Expression |-> <<>>, TextMatching |-> NoTextMatching, LengthRange |-> NoLengthRange]

---------------------------------------------------------------------------
(* HTTP engine and server: backend/core/tester/request_tester.go *)

ErrRetryExhausted == "still failing after the retries"
ErrCreateRequest == "creating the HTTP request failed"
ErrOriginalRequestFailed == "original request test failed"
ErrOriginalNotPassed == "original request did not pass validation"
MsgOriginalNotPassed == "original request did not meet the validation condition"

\* http.NewRequest accepts the URL
URLParses(url) == url # "http://[bad"

\* http.Header.Set stores under the canonical MIME header key
CanonicalKey(name) ==
    CASE name = "user-agent" -> "User-Agent"
      [] name = "x-a" -> "X-A"
      [] OTHER -> name

\* createHTTPRequest with the test for the empty User-Agent left out
createHTTPRequest_SetsEmptyUserAgent(r) ==
    IF ~URLParses(r.URL) THEN {}
    ELSE LET set == DOMAIN r.Headers
             keys == {CanonicalKey(k) : k \in set}
         IN  { [Header |-> hm, Cookies |-> r.Cookies] :
               hm \in {m \in [keys -> AllValues] :
                         \A c \in keys : \E k \in set :
                             CanonicalKey(k) = c /\ m[c] = r.Headers[k]} }

\* createHTTPRequest: the HTTP requests it may build (two keys with one
\* canonical form overwrite each other in map iteration order); none on error
createHTTPRequest(r) ==
    IF ~URLParses(r.URL) THEN {}
    ELSE LET set == {k \in DOMAIN r.Headers :
                        ~(ToLower(k) = "user-agent" /\ r.Headers[k] = "")}
             keys == {CanonicalKey(k) : k \in set}
         IN  { [Header |-> hm, Cookies |-> r.Cookies] :
               hm \in {m \in [keys -> AllValues] :
                         \A c \in keys : \E k \in set :
                             CanonicalKey(k) = c /\ m[c] = r.Headers[k]} }

\* what one TestRequestWithRetry call returns: an error, or the response
TransportError == [err |-> TRUE, StatusCode |-> 0, Body |-> <<>>]
\* the responses of the model's server: 200 with either body, or a bare 300
Responses ==
    {r \in [err : {FALSE}, StatusCode : BatchStatuses, Body : BatchBodies] :
        r.StatusCode = 300 => r.Body = <<>>}
ServerOutcomes == {TransportError} \cup Responses

\* a deterministic server answers a request it has seen as it did before
ServerMay(w, out) ==
    deterministic =>
        \A i \in 1..Len(sent) : sent[i].Reached /\ sent[i].Wire = w => sent[i].Out = out

NoWire == [Header |-> EmptyMap, Cookies |-> EmptyMap]

\* one TestRequestWithRetry call, as the log keeps it
Probe(name, type, request, reached, w, out, success) ==
    [FieldName |-> name, FieldType |-> type, Request |-> request, Reached |-> reached,
     Wire |-> w, Out |-> out, Success |-> success]

\* buildRequestFromState
buildRequestFromState(state, original) ==
    [Method |-> original.Method, URL |-> original.URL, Headers |-> state.Headers,
     Cookies |-> state.Cookies, Body |-> original.Body,
     QueryParams |-> original.QueryParams, ContentType |-> original.ContentType]

\* executeRequest with a failed TestRequestWithRetry call reported as a success
executeRequest_ErrorIsSuccess(request, cfg, out) ==
    IF createHTTPRequest(request) = {}
        THEN [Success |-> FALSE, Error |-> ErrCreateRequest, StatusCode |-> 0]
    ELSE IF out.err
        THEN [Success |-> TRUE, Error |-> ErrRetryExhausted, StatusCode |-> 0]
    ELSE IF EvaluateConfig(cfg, out).err # NoError
        THEN [Success |-> FALSE, Error |-> EvaluateConfig(cfg, out).err, StatusCode |-> 0]
    ELSE [Success |-> EvaluateConfig(cfg, out).ok, Error |-> "",
          StatusCode |-> out.StatusCode]

\* executeRequest, given what TestRequestWithRetry returned
executeRequest(request, cfg, out) ==
    IF createHTTPRequest(request) = {}
        THEN [Success |-> FALSE, Error |-> ErrCreateRequest, StatusCode |-> 0]
    ELSE IF out.err
        THEN [Success |-> FALSE, Error |-> ErrRetryExhausted, StatusCode |-> 0]
    ELSE IF EvaluateConfig(cfg, out).err # NoError
        THEN [Success |-> FALSE, Error |-> EvaluateConfig(cfg, out).err, StatusCode |-> 0]
    ELSE [Success |-> EvaluateConfig(cfg, out).ok, Error |-> "",
          StatusCode |-> out.StatusCode]

\* generateSimplifiedRequestFromCumulative with the query parameters not copied
generateSimplifiedRequestFromCumulative_NoQueryParams(original, results) ==
    [Method |-> original.Method, URL |-> original.URL,
     Headers |-> [h \in {h \in DOMAIN results.Headers :
                            results.Headers[h].Required /\ h \in DOMAIN original.Headers}
                  |-> original.Headers[h]],
     Cookies |-> [c \in {c \in DOMAIN results.Cookies :
                            results.Cookies[c].Required /\ c \in DOMAIN original.Cookies}
                  |-> original.Cookies[c]],
     Body |-> original.Body, QueryParams |-> EmptyMap,
     ContentType |-> original.ContentType]

\* generateSimplifiedRequestFromCumulative with the cookie loop left out
generateSimplifiedRequestFromCumulative_NoCookies(original, results) ==
    [Method |-> original.Method, URL |-> original.URL,
     Headers |-> [h \in {h \in DOMAIN results.Headers :
                            results.Headers[h].Required /\ h \in DOMAIN original.Headers}
                  |-> original.Headers[h]],
     Cookies |-> EmptyMap,
     Body |-> original.Body, QueryParams |-> original.QueryParams,
     ContentType |-> original.ContentType]

\* generateSimplifiedRequestFromCumulative
generateSimplifiedRequestFromCumulative(original, results) ==
    [Method |-> original.Method, URL |-> original.URL,
     Headers |-> [h \in {h \in DOMAIN results.Headers :
                            results.Headers[h].Required /\ h \in DOMAIN original.Headers}
                  |-> original.Headers[h]],
     Cookies |-> [c \in {c \in DOMAIN results.Cookies :
                            results.Cookies[c].Required /\ c \in DOMAIN original.Cookies}
                  |-> original.Cookies[c]],
     Body |-> original.Body, QueryParams |-> original.QueryParams,
     ContentType |-> original.ContentType]

\* getOriginalHeaderOrder, getOriginalCookieOrder: some order of the map's keys
KeyOrders(m) ==
    {o \in [1..Cardinality(DOMAIN m) -> DOMAIN m] :
        \A i, j \in 1..Cardinality(DOMAIN m) : i # j => o[i] # o[j]}

---------------------------------------------------------------------------
(* RequestService.TestFieldNecessity -> BatchTestFieldNecessity *)

NoResults == [Headers |-> EmptyMap, Cookies |-> EmptyMap]
NoLegacy == [HeaderResults |-> <<>>, CookieResults |-> <<>>, PassedTests |-> 0]
NoState == [Headers |-> EmptyMap, Cookies |-> EmptyMap]
NoSingle == [Request |-> NilRequest, Out |-> TransportError]

NewBatchTestResult(request) ==
    [OriginalPassed |-> FALSE, OriginalError |-> "", HeaderResults |-> <<>>,
     CookieResults |-> <<>>, CumulativeResults |-> NoResults,
     SimplifiedRequest |-> NilRequest,
     TotalTests |-> Cardinality(DOMAIN request.Headers)
                    + Cardinality(DOMAIN request.Cookies) + 1,
     PassedTests |-> 0]

\* the call arrives: the service sets the timeout and the batch starts
TestFieldNecessityOn(servers) ==
    /\ pc = "idle"
    /\ \E request \in Requests, cfg \in Configs, det \in servers :
          /\ req' = request
          /\ config' = cfg
          /\ deterministic' = det
          /\ result' = NewBatchTestResult(request)
    /\ pc' = "original"
    /\ UNCHANGED <<S, cumulativeResults, legacyResults, headerOrder, cookieOrder, hi,
                   ci, currentStep, sent, single, retErr, cancelledAt, events>>
    /\ UNCHANGED retryVars
    /\ UNCHANGED callVars

\* the call, made against a server free to answer each request as it likes,
\* the same request the same way included
TestFieldNecessity == TestFieldNecessityOn({FALSE})

\* the same call, made against a deterministic server
TestFieldNecessityDeterministic == TestFieldNecessityOn({TRUE})

\* the caller cancels the context of the running call
Cancel ==
    /\ pc \in {"original", "loop"}
    /\ cancelledAt < 0
    /\ cancelledAt' = Len(sent)
    /\ UNCHANGED <<pc, req, config, S, cumulativeResults, legacyResults, headerOrder,
                   cookieOrder, hi, ci, currentStep, sent, single, result, retErr,
                   deterministic, events>>
    /\ UNCHANGED retryVars
    /\ UNCHANGED callVars

\* originalOutcome with the return on a false verdict left out
originalOutcome_FalseVerdictGoesOn(cfg, out) ==
    LET v == EvaluateConfig(cfg, out)
    IN  IF out.err
            THEN [passed |-> FALSE, OriginalError |-> ErrRetryExhausted,
                  err |-> ErrOriginalRequestFailed]
        ELSE IF v.err # NoError
            THEN [passed |-> FALSE, OriginalError |-> v.err, err |-> v.err]
        ELSE IF ~v.ok
            THEN [passed |-> FALSE, OriginalError |-> MsgOriginalNotPassed,
                  err |-> NoError]
        ELSE [passed |-> TRUE, OriginalError |-> "", err |-> NoError]

\* how the batch takes what the probe of the original request returned:
\* passed, the OriginalError it records and the error it returns
originalOutcome(cfg, out) ==
    LET v == EvaluateConfig(cfg, out)
    IN  IF out.err
            THEN [passed |-> FALSE, OriginalError |-> ErrRetryExhausted,
                  err |-> ErrOriginalRequestFailed]
        ELSE IF v.err # NoError
            THEN [passed |-> FALSE, OriginalError |-> v.err, err |-> v.err]
        ELSE IF ~v.ok
            THEN [passed |-> FALSE, OriginalError |-> MsgOriginalNotPassed,
                  err |-> ErrOriginalNotPassed]
        ELSE [passed |-> TRUE, OriginalError |-> "", err |-> NoError]

\* updateProgress reporting no completed step
updateProgress_StepsFromZero(message, step) ==
    [Message |-> message, TotalSteps |-> result.TotalTests, CompletedSteps |-> 0,
     FieldResult |-> <<>>]

\* the TestProgress of the closure updateProgress, called at step count step
updateProgress(message, step) ==
    [Message |-> message, TotalSteps |-> result.TotalTests, CompletedSteps |-> step,
     FieldResult |-> <<>>]

\* updateProgressWithResult counting the field a second time
updateProgressWithResult_CountsTwice(message, step, fieldResult) ==
    [Message |-> message, TotalSteps |-> result.TotalTests, CompletedSteps |-> step + 1,
     FieldResult |-> <<fieldResult>>]

\* the TestProgress of the closure updateProgressWithResult
updateProgressWithResult(message, step, fieldResult) ==
    [Message |-> message, TotalSteps |-> result.TotalTests, CompletedSteps |-> step,
     FieldResult |-> <<fieldResult>>]

\* the probe of the original request, up to the start of the field loop
ProbeOriginalWith(reached, w, out) ==
    LET o == originalOutcome(config, out)
    IN
    /\ events' = Append(events, updateProgress(<<"testing original", "">>, currentStep))
    /\ sent' = Append(sent, Probe("", "original", req, reached, w, out, o.passed))
    /\ result' = [result EXCEPT !.OriginalPassed = o.passed,
                                !.OriginalError = o.OriginalError]
    /\ IF o.err # NoError THEN
          /\ retErr' = o.err
          /\ pc' = "done"
          /\ UNCHANGED <<S, headerOrder, cookieOrder, currentStep>>
       ELSE
          /\ currentStep' = currentStep + 1
          /\ S' = [Headers |-> req.Headers, Cookies |-> req.Cookies]
          /\ headerOrder' \in KeyOrders(req.Headers)
          /\ cookieOrder' \in KeyOrders(req.Cookies)
          /\ pc' = "loop"
          /\ UNCHANGED retErr

ProbeOriginal ==
    /\ pc = "original"
    /\ IF createHTTPRequest(req) = {}
       THEN ProbeOriginalWith(FALSE, NoWire, TransportError)
       ELSE \E w \in createHTTPRequest(req), out \in ServerOutcomes :
               ServerMay(w, out) /\ ProbeOriginalWith(TRUE, w, out)
    /\ UNCHANGED <<req, config, cumulativeResults, legacyResults, hi, ci, single,
                   cancelledAt, deterministic>>
    /\ UNCHANGED retryVars
    /\ UNCHANGED callVars

\* the legacy result with every probed field reported as required
LegacyResult_AlwaysRequired(name, type, testResult) ==
    [FieldName |-> name, FieldType |-> type, IsRequired |-> TRUE,
     TestPassed |-> testResult.Success, ErrorMsg |-> testResult.Error,
     StatusCode |-> testResult.StatusCode]

LegacyResult(name, type, testResult) ==
    [FieldName |-> name, FieldType |-> type, IsRequired |-> ~testResult.Success,
     TestPassed |-> testResult.Success, ErrorMsg |-> testResult.Error,
     StatusCode |-> testResult.StatusCode]

\* the loop with the restore of a required field left out
AfterHeaderProbe_NeverRestores(state, headerName, removedValue, isRequired) ==
    state

AfterCookieProbe_NeverRestores(state, cookieName, removedValue, isRequired) ==
    state

\* what the loop does to the working state once the probe of a field is back
AfterHeaderProbe(state, headerName, removedValue, isRequired) ==
    IF isRequired
    THEN [state EXCEPT !.Headers = MapSet(state.Headers, headerName, removedValue)]
    ELSE state

\* the cookie loop putting the cookie back whatever the probe said
AfterCookieProbe_AlwaysRestores(state, cookieName, removedValue, isRequired) ==
    [state EXCEPT !.Cookies = MapSet(state.Cookies, cookieName, removedValue)]

AfterCookieProbe(state, cookieName, removedValue, isRequired) ==
    IF isRequired
    THEN [state EXCEPT !.Cookies = MapSet(state.Cookies, cookieName, removedValue)]
    ELSE state

\* the body of the header loop for the header under test, probed with (w, out)
HeaderProbed(headerName, removedValue, state, w, out) ==
    LET testRequest == buildRequestFromState(state, req)
        testResult == executeRequest(testRequest, config, out)
        isRequired == ~testResult.Success
    IN
    /\ S' = AfterHeaderProbe(state, headerName, removedValue, isRequired)
    /\ cumulativeResults' =
          [cumulativeResults EXCEPT !.Headers =
              MapSet(cumulativeResults.Headers, headerName,
                     [Required |-> isRequired, Value |-> removedValue,
                      TestResult |-> testResult])]
    /\ legacyResults' =
          [legacyResults EXCEPT
              !.HeaderResults = Append(@, LegacyResult(headerName, "header", testResult)),
              !.PassedTests = IF testResult.Success THEN @ + 1 ELSE @]
    /\ sent' = Append(sent, Probe(headerName, "header", testRequest, TRUE, w, out,
                                  testResult.Success))
    /\ currentStep' = currentStep + 1
    /\ events' = events \o
          << updateProgress(<<"testing header", headerName>>, currentStep),
             updateProgressWithResult(<<"header done", headerName>>, currentStep + 1,
                                      LegacyResult(headerName, "header", testResult)) >>

\* the User-Agent test with the name compared as written
SkipsProbe_CaseSensitive(headerName, cfg) ==
    headerName = "User-Agent" /\ cfg.PreserveUserAgent

\* the loop with the PreserveUserAgent branch left out
SkipsProbe_Never(headerName, cfg) ==
    FALSE

\* the header is User-Agent and the configuration keeps it
SkipsProbe(headerName, cfg) ==
    ToLower(headerName) = "user-agent" /\ cfg.PreserveUserAgent

HeaderStep ==
    /\ pc = "loop"
    /\ hi <= Len(headerOrder)
    /\ LET headerName == headerOrder[hi]
           isUserAgent == ToLower(headerName) = "user-agent"
       IN
       IF headerName \notin DOMAIN S.Headers THEN
          /\ events' = Append(events,
                updateProgress(<<"testing header", headerName>>, currentStep))
          /\ UNCHANGED <<S, cumulativeResults, legacyResults, sent, currentStep>>
       ELSE IF SkipsProbe(headerName, config) THEN
          /\ cumulativeResults' =
                [cumulativeResults EXCEPT !.Headers =
                    MapSet(cumulativeResults.Headers, headerName,
                           [Required |-> TRUE, Value |-> S.Headers[headerName],
                            TestResult |-> [Success |-> TRUE, Error |-> "",
                                            StatusCode |-> 0]])]
          /\ legacyResults' =
                [legacyResults EXCEPT
                    !.HeaderResults = Append(@,
                        [FieldName |-> headerName, FieldType |-> "header",
                         IsRequired |-> TRUE, TestPassed |-> TRUE, ErrorMsg |-> "",
                         StatusCode |-> 0]),
                    !.PassedTests = @ + 1]
          /\ currentStep' = currentStep + 1
          /\ events' = events \o
                << updateProgress(<<"testing header", headerName>>, currentStep),
                   updateProgressWithResult(<<"header kept", headerName>>,
                      currentStep + 1,
                      [FieldName |-> headerName, FieldType |-> "header",
                       IsRequired |-> TRUE, TestPassed |-> TRUE, ErrorMsg |-> "",
                       StatusCode |-> 0]) >>
          /\ UNCHANGED <<S, sent>>
       ELSE
          LET removedValue == S.Headers[headerName]
              state == IF isUserAgent
                       THEN [S EXCEPT !.Headers = MapSet(S.Headers, headerName, "")]
                       ELSE [S EXCEPT !.Headers = MapDelete(S.Headers, headerName)]
          IN  \E w \in createHTTPRequest(buildRequestFromState(state, req)),
                 out \in ServerOutcomes :
                  /\ ServerMay(w, out)
                  /\ HeaderProbed(headerName, removedValue, state, w, out)
    /\ hi' = hi + 1
    /\ UNCHANGED <<pc, req, config, headerOrder, cookieOrder, ci, single, result,
                   retErr, cancelledAt, deterministic>>
    /\ UNCHANGED retryVars
    /\ UNCHANGED callVars

\* the body of the cookie loop for the cookie under test, probed with (w, out)
CookieProbed(cookieName, removedValue, state, w, out) ==
    LET testRequest == buildRequestFromState(state, req)
        testResult == executeRequest(testRequest, config, out)
        isRequired == ~testResult.Success
    IN
    /\ S' = AfterCookieProbe(state, cookieName, removedValue, isRequired)
    /\ cumulativeResults' =
          [cumulativeResults EXCEPT !.Cookies =
              MapSet(cumulativeResults.Cookies, cookieName,
                     [Required |-> isRequired, Value |-> removedValue,
                      TestResult |-> testResult])]
    /\ legacyResults' =
          [legacyResults EXCEPT
              !.CookieResults = Append(@, LegacyResult(cookieName, "cookie", testResult)),
              !.PassedTests = IF testResult.Success THEN @ + 1 ELSE @]
    /\ sent' = Append(sent, Probe(cookieName, "cookie", testRequest, TRUE, w, out,
                                  testResult.Success))
    /\ currentStep' = currentStep + 1
    /\ events' = events \o
          << updateProgress(<<"testing cookie", cookieName>>, currentStep),
             updateProgressWithResult(<<"cookie done", cookieName>>, currentStep + 1,
                                      LegacyResult(cookieName, "cookie", testResult)) >>

CookieStep ==
    /\ pc = "loop"
    /\ hi > Len(headerOrder)
    /\ ci <= Len(cookieOrder)
    /\ LET cookieName == cookieOrder[ci]
       IN
       IF cookieName \notin DOMAIN S.Cookies THEN
          /\ events' = Append(events,
                updateProgress(<<"testing cookie", cookieName>>, currentStep))
          /\ UNCHANGED <<S, cumulativeResults, legacyResults, sent, currentStep>>
       ELSE
          LET removedValue == S.Cookies[cookieName]
              state == [S EXCEPT !.Cookies = MapDelete(S.Cookies, cookieName)]
          IN  \E w \in createHTTPRequest(buildRequestFromState(state, req)),
                 out \in ServerOutcomes :
                  /\ ServerMay(w, out)
                  /\ CookieProbed(cookieName, removedValue, state, w, out)
    /\ ci' = ci + 1
    /\ UNCHANGED <<pc, req, config, headerOrder, cookieOrder, hi, single, result,
                   retErr, cancelledAt, deterministic>>
    /\ UNCHANGED retryVars
    /\ UNCHANGED callVars

\* after the loops: the results are copied and the simplified request generated
Finish ==
    /\ pc = "loop"
    /\ hi > Len(headerOrder)
    /\ ci > Len(cookieOrder)
    /\ result' = [result EXCEPT
          !.CumulativeResults = cumulativeResults,
          !.HeaderResults = legacyResults.HeaderResults,
          !.CookieResults = legacyResults.CookieResults,
          !.PassedTests = legacyResults.PassedTests,
          !.SimplifiedRequest =
              generateSimplifiedRequestFromCumulative(req, cumulativeResults)]
    /\ events' = Append(events, updateProgress(<<"done", "">>, currentStep))
    /\ pc' = "done"
    /\ UNCHANGED <<req, config, S, cumulativeResults, legacyResults, headerOrder,
                   cookieOrder, hi, ci, currentStep, sent, single, retErr, cancelledAt,
                   deterministic>>
    /\ UNCHANGED retryVars
    /\ UNCHANGED callVars

\* the values of batchVars when no call is running
BatchIdle ==
    <<"idle", NilRequest, NilConfig, NoState, NoResults, NoLegacy, <<>>, <<>>, 1, 1,
      0, <<>>, NoSingle, NewBatchTestResult(NilRequest), NoError, -1, FALSE, <<>>>>

\* the caller has taken (result, err): the call's locals are gone
Return ==
    /\ pc = "done"
    /\ pc' = BatchIdle[1]
    /\ req' = BatchIdle[2]
    /\ config' = BatchIdle[3]
    /\ S' = BatchIdle[4]
    /\ cumulativeResults' = BatchIdle[5]
    /\ legacyResults' = BatchIdle[6]
    /\ headerOrder' = BatchIdle[7]
    /\ cookieOrder' = BatchIdle[8]
    /\ hi' = BatchIdle[9]
    /\ ci' = BatchIdle[10]
    /\ currentStep' = BatchIdle[11]
    /\ sent' = BatchIdle[12]
    /\ single' = BatchIdle[13]
    /\ result' = BatchIdle[14]
    /\ retErr' = BatchIdle[15]
    /\ cancelledAt' = BatchIdle[16]
    /\ deterministic' = BatchIdle[17]
    /\ events' = BatchIdle[18]
    /\ UNCHANGED retryVars
    /\ UNCHANGED callVars

---------------------------------------------------------------------------
(* RequestService.TestSingleRequest -> RequestTester.TestRequest *)

\* the requests made of some of the fields of r
SubRequests(r) ==
    { [r EXCEPT !.Headers = [h \in hs |-> r.Headers[h]],
                !.Cookies = [c \in cs |-> r.Cookies[c]]] :
      hs \in SUBSET DOMAIN r.Headers, cs \in SUBSET DOMAIN r.Cookies }

\* len(Headers) + len(Cookies), the field count of the statistics
FieldCount(r) == Cardinality(DOMAIN r.Headers) + Cardinality(DOMAIN r.Cookies)

\* after a successful batch the user sends one request made of fewer of the
\* original's fields than the simplified request to the same server, once,
\* with no retry; single keeps the ResponseData, and a call that returns an
\* error leaves none
TestSingleRequest ==
    /\ pc = "done"
    /\ retErr = NoError
    /\ single = NoSingle
    /\ \E r \in {x \in SubRequests(req) :
                    FieldCount(x) < FieldCount(result.SimplifiedRequest)} :
          \E w \in createHTTPRequest(r), out \in Responses :
             /\ ServerMay(w, out)
             /\ single' = [Request |-> r, Out |-> out]
    /\ UNCHANGED <<pc, req, config, S, cumulativeResults, legacyResults, headerOrder,
                   cookieOrder, hi, ci, currentStep, sent, result, retErr, cancelledAt,
                   deterministic, events>>
    /\ UNCHANGED retryVars
    /\ UNCHANGED callVars

---------------------------------------------------------------------------
(* RequestTester.TestRequestWithRetry, attempt by attempt *)

RetryIdle ==
    <<0, 0, 0, 0, <<>>, "idle", TransportError>>

\* 1 << n
RECURSIVE Shl1(_)
Shl1(n) == IF n = 0 THEN 1 ELSE 2 * Shl1(n - 1)

\* the local maxRetries for a configured MaxRetries
EffectiveMaxRetries(configured) ==
    IF configured <= 0 THEN DefaultMaxRetries ELSE configured

\* the wait after a failed attempt
waitTime(n) == BackoffBaseMs * Shl1(n)

RetryCall ==
    /\ rpc = "idle"
    /\ \E m \in 0..MaxRetriesBound :
          /\ rMax' = m
          /\ maxRetries' = EffectiveMaxRetries(m)
    /\ attempt' = 0
    /\ attemptsMade' = 0
    /\ slept' = <<>>
    /\ rpc' = "loop"
    /\ UNCHANGED rRet
    /\ UNCHANGED batchVars
    /\ UNCHANGED callVars

\* one turn of the loop: TestRequest, then return, or sleep and go on
RetryAttempt ==
    /\ rpc = "loop"
    /\ attempt <= maxRetries
    /\ attemptsMade' = attemptsMade + 1
    /\ \E out \in ServerOutcomes :
          IF ~out.err THEN
             /\ rRet' = out
             /\ rpc' = "returned"
             /\ UNCHANGED <<attempt, slept>>
          ELSE
             /\ slept' = IF attempt < maxRetries
                         THEN Append(slept, waitTime(attempt)) ELSE slept
             /\ attempt' = attempt + 1
             /\ rpc' = IF attempt + 1 <= maxRetries THEN "loop" ELSE "returned"
             /\ rRet' = TransportError
    /\ UNCHANGED <<rMax, maxRetries>>
    /\ UNCHANGED batchVars
    /\ UNCHANGED callVars

RetryReturn ==
    /\ rpc = "returned"
    /\ rMax' = RetryIdle[1]
    /\ maxRetries' = RetryIdle[2]
    /\ attempt' = RetryIdle[3]
    /\ attemptsMade' = RetryIdle[4]
    /\ slept' = RetryIdle[5]
    /\ rpc' = RetryIdle[6]
    /\ rRet' = RetryIdle[7]
    /\ UNCHANGED batchVars
    /\ UNCHANGED callVars

\* no batch and no retry loop is running
ServiceIdle ==
    /\ pc = BatchIdle[1]
    /\ req = BatchIdle[2]
    /\ config = BatchIdle[3]
    /\ S = BatchIdle[4]
    /\ cumulativeResults = BatchIdle[5]
    /\ legacyResults = BatchIdle[6]
    /\ headerOrder = BatchIdle[7]
    /\ cookieOrder = BatchIdle[8]
    /\ hi = BatchIdle[9]
    /\ ci = BatchIdle[10]
    /\ currentStep = BatchIdle[11]
    /\ sent = BatchIdle[12]
    /\ single = BatchIdle[13]
    /\ result = BatchIdle[14]
    /\ retErr = BatchIdle[15]
    /\ cancelledAt = BatchIdle[16]
    /\ deterministic = BatchIdle[17]
    /\ events = BatchIdle[18]
    /\ rMax = RetryIdle[1]
    /\ maxRetries = RetryIdle[2]
    /\ attempt = RetryIdle[3]
    /\ attemptsMade = RetryIdle[4]
    /\ slept = RetryIdle[5]
    /\ rpc = RetryIdle[6]
    /\ rRet = RetryIdle[7]
    /\ clientTimeout = DefaultTimeout
    /\ calls = <<>>

---------------------------------------------------------------------------
(* The timeout of the HTTP client over the calls of one RequestService *)

\* config.Timeout of a call, in seconds
Timeouts == {-1, 0, 5, 60}

\* RequestTester.SetTimeout
SetTimeout(timeout) == clientTimeout' = timeout

\* RequestService.TestSingleRequest: the timeout is set only when
\* config.Timeout > 0, and the request goes out with the client's timeout
TimedTestSingleRequest ==
    \E t \in Timeouts :
        /\ Len(calls) < MaxCalls
        /\ IF t > 0 THEN SetTimeout(t) ELSE UNCHANGED clientTimeout
        /\ calls' = Append(calls, [op |-> "TestSingleRequest", timeout |-> t,
                                   used |-> clientTimeout'])
        /\ UNCHANGED <<callee, callArgs, callRet, returned>>
        /\ UNCHANGED batchVars
        /\ UNCHANGED retryVars

\* RequestService.TestFieldNecessity: the timeout is set on every call, to 30
\* seconds when config.Timeout <= 0, and the probes go out with it
TimedTestFieldNecessity ==
    \E t \in Timeouts :
        /\ Len(calls) < MaxCalls
        /\ IF t > 0 THEN SetTimeout(t) ELSE SetTimeout(DefaultTimeout)
        /\ calls' = Append(calls, [op |-> "TestFieldNecessity", timeout |-> t,
                                   used |-> clientTimeout'])
        /\ UNCHANGED <<callee, callArgs, callRet, returned>>
        /\ UNCHANGED batchVars
        /\ UNCHANGED retryVars

---------------------------------------------------------------------------
(* The validator called on its own: EvaluateConfig, checkTextMatching,      *)
(* checkLengthRange                                                         *)

\* a body of n bytes
BodyOfLength(n) == [i \in 1..n |-> "a"]

TextBodies == {<<>>, <<"o", "k">>, <<"O", "K">>, <<"n", "o">>, <<"n", "o", "O", "K">>}
LengthBodies == {BodyOfLength(n) : n \in {0, 9, 10, 100, 101}}

ValidatorResponses ==
    [err : {FALSE}, StatusCode : {199, 200, 299, 300}, Body : TextBodies \cup LengthBodies]

\* the needles of a texts list, the empty needle among them
TextLists ==
    UNION {[1..n -> {<<>>, <<"o", "k">>, <<"O", "K">>, <<"n", "o">>}] :
           n \in 0..MaxNeedles}

TextMatchingConfigs ==
    [Enabled : {TRUE}, Texts : TextLists, MatchMode : {"any", "all"},
     CaseSensitive : BOOLEAN]

LengthRangeConfigs ==
    [Enabled : {TRUE}, MinLength : {0, 10}, MaxLength : {-1, 0, 100}]

ExprStatusIs300 ==
    << Sel("status_code", <<"response.status_code">>), Op("==", <<"==">>),
       Num(300, Itoa(300)) >>

ValidatorConfigs ==
    [MaxRetries : {DefaultMaxRetries}, PreserveUserAgent : {FALSE},
     UseCustomExpr : BOOLEAN,
     Expression : {<<>>, ExprStatusIs200, ExprStatusIs300},
     TextMatching : {NoTextMatching,
                     [Enabled |-> TRUE, Texts |-> << <<"o", "k">> >>,
                      MatchMode |-> "all", CaseSensitive |-> FALSE]},
     LengthRange : {NoLengthRange,
                    [Enabled |-> TRUE, MinLength |-> 10, MaxLength |-> 100],
                    [Enabled |-> TRUE, MinLength |-> 0, MaxLength |-> 0]}]

\* a caller holds the arguments of one validator call
InitValidator ==
    /\ ServiceIdle
    /\ returned = FALSE
    /\ callRet = <<>>
    /\ \/ /\ callee = "EvaluateConfig"
          /\ callArgs \in [config : ValidatorConfigs, response : ValidatorResponses]
       \/ /\ callee = "checkTextMatching"
          /\ callArgs \in [config : TextMatchingConfigs, responseBody : TextBodies]
       \/ /\ callee = "checkLengthRange"
          /\ callArgs \in [config : LengthRangeConfigs, responseBody : LengthBodies]

CallEvaluateConfig ==
    /\ callee = "EvaluateConfig"
    /\ ~returned
    /\ callRet' = EvaluateConfig(callArgs.config, callArgs.response)
    /\ returned' = TRUE
    /\ UNCHANGED <<callee, callArgs, clientVars>>
    /\ UNCHANGED batchVars
    /\ UNCHANGED retryVars

CallCheckTextMatching ==
    /\ callee = "checkTextMatching"
    /\ ~returned
    /\ callRet' = checkTextMatching(callArgs.config, callArgs.responseBody)
    /\ returned' = TRUE
    /\ UNCHANGED <<callee, callArgs, clientVars>>
    /\ UNCHANGED batchVars
    /\ UNCHANGED retryVars

CallCheckLengthRange ==
    /\ callee = "checkLengthRange"
    /\ ~returned
    /\ callRet' = checkLengthRange(callArgs.config, callArgs.responseBody)
    /\ returned' = TRUE
    /\ UNCHANGED <<callee, callArgs, clientVars>>
    /\ UNCHANGED batchVars
    /\ UNCHANGED retryVars

---------------------------------------------------------------------------
(* The expression checks called on their own: SafeValidator.ValidateExpression, *)
(* SafeValidator.EvaluateExpression and RequestService.ValidateExpression       *)

ExprTokens ==
    { Num(200, Itoa(200)),
      Sel("status_code", <<"response.status_code">>),
      Sel("secret", <<"response.secret">>),
      Ident("true", <<"true">>),
      Ident("evil", <<"evil">>),
      CallIdent("len", <<"len(1)">>),
      CallIdent("eval", <<"eval(1)">>),
      CallResponse("json", <<"response.json()">>),
      CallResponse("exec", <<"response.exec()">>),
      CallSelector("os.Exit", <<"os.Exit(1)">>),
      CallParen("eval", <<"(eval)(1)">>),
      Op("==", <<"==">>),
      Op("+", <<"+">>) }

Expressions == UNION {[1..n -> ExprTokens] : n \in 0..MaxTokens}

ExpressionResponses == [err : {FALSE}, StatusCode : {200, 300}, Body : {<<>>}]

\* a caller holds the arguments of one call
InitExpression ==
    /\ ServiceIdle
    /\ returned = FALSE
    /\ callRet = <<>>
    /\ \/ /\ callee = "SafeValidator.ValidateExpression"
          /\ callArgs \in [expression : Expressions]
       \/ /\ callee = "SafeValidator.EvaluateExpression"
          /\ callArgs \in [expression : Expressions, response : ExpressionResponses]
       \/ /\ callee = "RequestService.ValidateExpression"
          /\ callArgs \in [expression : Expressions]

CallValidateExpression ==
    /\ callee = "SafeValidator.ValidateExpression"
    /\ ~returned
    /\ callRet' = ValidateExpression(callArgs.expression)
    /\ returned' = TRUE
    /\ UNCHANGED <<callee, callArgs, clientVars>>
    /\ UNCHANGED batchVars
    /\ UNCHANGED retryVars

CallEvaluateExpression ==
    /\ callee = "SafeValidator.EvaluateExpression"
    /\ ~returned
    /\ callRet' = EvaluateExpression(callArgs.expression, callArgs.response)
    /\ returned' = TRUE
    /\ UNCHANGED <<callee, callArgs, clientVars>>
    /\ UNCHANGED batchVars
    /\ UNCHANGED retryVars

CallRequestServiceValidateExpression ==
    /\ callee = "RequestService.ValidateExpression"
    /\ ~returned
    /\ callRet' = RequestServiceValidateExpression(callArgs.expression)
    /\ returned' = TRUE
    /\ UNCHANGED <<callee, callArgs, clientVars>>
    /\ UNCHANGED batchVars
    /\ UNCHANGED retryVars

---------------------------------------------------------------------------
(* The parsers: backend/core/parser (raw, curl, unified) and the facade's    *)
(* ParseRequest and ParseRequestWithType.  A text is the sequence of its     *)
(* blank-separated words (a quoted curl argument is one word); a map field   *)
(* of a ParsedRequest and a *ParsedRequest are <<>> when nil and <<v>>        *)
(* otherwise.                                                                 *)

validMethods == {"GET", "POST", "PUT", "DELETE", "PATCH", "HEAD", "OPTIONS"}

\* strings.ToUpper on the words of the model that are made of letters
ToUpper(word) ==
    CASE word = "post" -> "POST"
      [] word = "get" -> "GET"
      [] word = "curl" -> "CURL"
      [] OTHER -> word

\* strings.HasPrefix(arg, "-")
HasDashPrefix(arg) == arg \in {"-H", "-X", "-b", "-d"}

\* strings.HasPrefix(url, "http://") || strings.HasPrefix(url, "https://")
HasHTTPScheme(url) ==
    url \in {"https://api.test/v1?x=1", "http://h/", "http://[bad"}

\* parseQueryParams: the map it makes of the first values of
\* url.Parse(requestURL).Query(), and the error of url.Parse
parseQueryParams(requestURL) ==
    IF URLParses(requestURL)
    THEN [params |-> << IF requestURL = "https://api.test/v1?x=1"
                        THEN [q \in {"x"} |-> "1"] ELSE EmptyMap >>,
          err |-> NoError]
    ELSE [params |-> <<EmptyMap>>, err |-> "parsing the URL parameters failed"]

\* a header value split at its first colon, if it has one after position 0
SplitHeader(headerValue) ==
    CASE headerValue = "X-A: 1" -> <<[key |-> "X-A", value |-> "1"]>>
      [] headerValue = "X-A: 2" -> <<[key |-> "X-A", value |-> "2"]>>
      [] headerValue = "https://api.test/v1?x=1" ->
            <<[key |-> "https", value |-> "//api.test/v1?x=1"]>>
      [] OTHER -> <<>>

\* a cookie string split at ";" and at the first "=" of each pair
SplitCookies(cookieValue) ==
    CASE cookieValue = "sid=s1" -> [c \in {"sid"} |-> "s1"]
      [] cookieValue = "https://api.test/v1?x=1" ->
            [c \in {"https://api.test/v1?x"} |-> "1"]
      [] OTHER -> EmptyMap

\* the words that follow one of the given flags in args
ValuesOf(args, flags) ==
    {args[i + 1] : i \in {j \in 1..(Len(args) - 1) : args[j] \in flags}}

\* extractURL from position i on.  The loop is a range loop: the i++ of the
\* flag branch changes the loop variable of that iteration only, and the word
\* after a flag is visited like any other.
RECURSIVE extractURLFrom(_, _)
extractURLFrom(args, i) ==
    IF i > Len(args) THEN ""
    ELSE IF args[i] = "curl" THEN extractURLFrom(args, i + 1)
    ELSE IF HasDashPrefix(args[i]) THEN extractURLFrom(args, i + 1)
    ELSE args[i]

extractURL(args) == extractURLFrom(args, 1)

extractMethod(args) ==
    LET at == {i \in 1..(Len(args) - 1) : args[i] \in {"-X", "--request"}}
    IN  IF at = {} THEN "GET"
        ELSE ToUpper(args[(CHOOSE i \in at : \A j \in at : i <= j) + 1])

\* the loop of extractHeaders over the first n words: headers[key] = value for
\* each word after -H or --header that splits, in the order of the words
RECURSIVE extractHeadersUpTo(_, _)
extractHeadersUpTo(args, n) ==
    IF n = 0 THEN EmptyMap
    ELSE LET headers == extractHeadersUpTo(args, n - 1)
         IN  IF /\ args[n] \in {"-H", "--header"}
                /\ n + 1 <= Len(args)
                /\ SplitHeader(args[n + 1]) # <<>>
             THEN MapSet(headers, SplitHeader(args[n + 1])[1].key,
                         SplitHeader(args[n + 1])[1].value)
             ELSE headers

extractHeaders(args) == extractHeadersUpTo(args, Len(args))

extractCookies(args) ==
    LET found == {SplitCookies(v) : v \in ValuesOf(args, {"-b", "--cookie"})}
        names == UNION {DOMAIN m : m \in found}
    IN  [c \in names |-> (CHOOSE m \in found : c \in DOMAIN m)[c]]

extractBody(args) ==
    LET at == {i \in 1..(Len(args) - 1) : args[i] \in {"-d", "--data", "--data-raw"}}
    IN  IF at = {} THEN ""
        ELSE args[(CHOOSE i \in at : \A j \in at : i <= j) + 1]

\* headers["Content-Type"], else headers["content-type"]
contentTypeOf(headers) ==
    IF "Content-Type" \in DOMAIN headers /\ headers["Content-Type"] # ""
        THEN headers["Content-Type"]
    ELSE IF "content-type" \in DOMAIN headers THEN headers["content-type"]
    ELSE ""

NoRequest(err) == [req |-> <<>>, err |-> err]

\* CurlRequestParser.Parse on the words of the command
CurlParse(input) ==
    LET args == input.words
        requestURL == extractURL(args)
        headers == extractHeaders(args)
    IN  IF Len(args) = 0 THEN NoRequest("the input must not be empty")
        ELSE IF requestURL = "" THEN NoRequest("no request URL found")
        ELSE IF parseQueryParams(requestURL).err # NoError
            THEN NoRequest("parsing the URL parameters failed")
        ELSE [req |-> << [Method |-> extractMethod(args), URL |-> requestURL,
                          Headers |-> <<headers>>,
                          Cookies |-> <<extractCookies(args)>>,
                          Body |-> extractBody(args),
                          QueryParams |-> parseQueryParams(requestURL).params,
                          ContentType |-> contentTypeOf(headers)] >>,
              err |-> NoError]

\* parseRequestLine on the words of the first line
parseRequestLine(parts) ==
    IF Len(parts) < 2 THEN [method |-> "", url |-> "", err |-> "invalid request line"]
    ELSE IF ToUpper(parts[1]) \notin validMethods
        THEN [method |-> "", url |-> "", err |-> "unsupported HTTP method"]
    ELSE [method |-> ToUpper(parts[1]), url |-> parts[2], err |-> NoError]

\* the header loop of RawRequestParser.Parse over the lines key: value
RECURSIVE rawHeaders(_)
rawHeaders(lines) ==
    IF Len(lines) = 0 THEN EmptyMap
    ELSE MapSet(rawHeaders(SubSeq(lines, 1, Len(lines) - 1)),
                lines[Len(lines)].key, lines[Len(lines)].value)

RECURSIVE rawCookies(_)
rawCookies(lines) ==
    IF Len(lines) = 0 THEN EmptyMap
    ELSE LET before == rawCookies(SubSeq(lines, 1, Len(lines) - 1))
             line == lines[Len(lines)]
             more == IF ToLower(line.key) = "cookie" THEN SplitCookies(line.value)
                     ELSE EmptyMap
         IN  [c \in DOMAIN before \cup DOMAIN more |->
                 IF c \in DOMAIN more THEN more[c] ELSE before[c]]

\* RawRequestParser.Parse on the words of the request line and the header lines.
\* The text is split into lines as it came, so lines[0] is empty when the text
\* starts with an empty line
RawParse(input) ==
    LET requestLine == IF input.leading > 0 THEN <<>> ELSE input.words
        line == parseRequestLine(requestLine)
        headers == rawHeaders(input.lines)
    IN  IF Len(input.words) = 0 /\ Len(input.lines) = 0 THEN NoRequest("the input must not be empty")
        ELSE IF line.err # NoError THEN NoRequest(line.err)
        ELSE IF parseQueryParams(line.url).err # NoError THEN NoRequest("parsing the URL parameters failed")
        ELSE [req |-> << [Method |-> line.method, URL |-> line.url,
                          Headers |-> <<headers>>,
                          Cookies |-> <<rawCookies(input.lines)>>,
                          Body |-> "",
                          QueryParams |-> parseQueryParams(line.url).params,
                          ContentType |-> contentTypeOf(headers)] >>,
              err |-> NoError]

\* IsCurlCommand: the text is "curl" or starts with "curl "
IsCurlCommand(input) == Len(input.words) > 0 /\ input.words[1] = "curl"

\* IsRawRequest: the first line is METHOD, a word and perhaps HTTP/d.d
IsRawRequest(input) ==
    /\ Len(input.words) \in {2, 3}
    /\ input.words[1] \in validMethods
    /\ Len(input.words) = 3 => input.words[3] = "HTTP/1.1"

DetectInputType(input) ==
    IF IsCurlCommand(input) THEN "curl"
    ELSE IF IsRawRequest(input) THEN "raw"
    ELSE "unknown"

\* UnifiedRequestParser.Parse
Parse(input) ==
    IF Len(input.words) = 0 /\ Len(input.lines) = 0 THEN NoRequest("the input must not be empty")
    ELSE IF DetectInputType(input) = "curl" THEN CurlParse(input)
    ELSE IF DetectInputType(input) = "raw" THEN RawParse(input)
    ELSE NoRequest("unrecognised request format")

\* strings.ToLower on an input type
LowerType(inputType) ==
    CASE inputType = "CURL" -> "curl"
      [] inputType = "Raw" -> "raw"
      [] OTHER -> inputType

\* UnifiedRequestParser.ParseWithType
ParseWithType(input, inputType) ==
    IF LowerType(inputType) = "curl" THEN CurlParse(input)
    ELSE IF LowerType(inputType) \in {"raw", "http"} THEN RawParse(input)
    ELSE NoRequest("unsupported input type")

\* UnifiedRequestParser.ValidateRequest on a *ParsedRequest
ValidateRequest(reqPtr) ==
    IF reqPtr = <<>> THEN "the request must not be nil"
    ELSE IF reqPtr[1].Method = "" THEN "the HTTP method must not be empty"
    ELSE IF reqPtr[1].URL = "" THEN "the request URL must not be empty"
    ELSE IF ~HasHTTPScheme(reqPtr[1].URL) THEN "the URL must start with http:// or https://"
    ELSE IF reqPtr[1].Method \notin validMethods THEN "unsupported HTTP method"
    ELSE NoError

\* the facade returning what the parser returned, unvalidated
validated_Unchecked(parsed) ==
    parsed

\* the second half of ParseRequest and ParseRequestWithType
validated(parsed) ==
    IF parsed.err # NoError THEN NoRequest(parsed.err)
    ELSE IF ValidateRequest(parsed.req) # NoError
        THEN NoRequest(ValidateRequest(parsed.req))
    ELSE parsed

\* RequestService.ParseRequest
ParseRequest(input) == validated(Parse(input))

\* RequestService.ParseRequestWithType
ParseRequestWithType(input, inputType) == validated(ParseWithType(input, inputType))

CurlWords == {"-H", "-X", "-b", "X-A: 1", "post", "sid=s1", "https://api.test/v1?x=1",
              "/v1"}
CurlCommands ==
    {<<"curl">> \o a : a \in UNION {[1..n -> CurlWords] : n \in 0..MaxArgs}}

RawWords == {"GET", "post", "BREW", "https://api.test/v1?x=1", "/v1", "HTTP/1.1",
             "http://[bad"}
RequestLines == UNION {[1..n -> RawWords] : n \in 0..MaxWords}
HeaderLines ==
    { <<>>, << [key |-> "X-A", value |-> "1"] >>,
      << [key |-> "Cookie", value |-> "sid=s1"] >> }

\* curl commands made of data flags and header flags and their values
FlagCommands ==
    {<<"curl">> \o a :
        a \in UNION {[1..n -> {"-d", "--data", "a=1", "b=2", "-H", "X-A: 1", "X-A: 2"}] :
                     n \in 0..MaxFlagWords}}

\* the texts handed to the parsers: curl commands, of one line, and raw
\* requests; leading counts the empty lines before the first non-empty line
Inputs ==
    [words : CurlCommands, lines : {<<>>}, leading : 0..MaxLeading]
    \cup {i \in [words : RequestLines, lines : HeaderLines, leading : 0..MaxLeading] :
             Len(i.words) = 0 => Len(i.lines) = 0}

InputTypes == {"curl", "CURL", "raw", "Raw", "http", "har"}

\* the requests ValidateRequest is handed, nil among them
RequestsToValidate ==
    {<<>>} \cup
    { <<r>> : r \in [Method : validMethods \cup {"", "get", "BREW"},
                     URL : {"", "https://api.test/v1?x=1", "http://h/", "/v1",
                            "ftp://h/"},
                     Headers : {<<EmptyMap>>}, Cookies : {<<EmptyMap>>},
                     Body : {""}, QueryParams : {<<EmptyMap>>},
                     ContentType : {""}] }

\* a caller holds the arguments of one call
InitParser ==
    /\ ServiceIdle
    /\ returned = FALSE
    /\ callRet = <<>>
    /\ \/ /\ callee = "RequestService.ParseRequest"
          /\ callArgs \in [input : Inputs]
       \/ /\ callee = "RequestService.ParseRequestWithType"
          /\ callArgs \in {a \in [input : Inputs, inputType : InputTypes] :
                              Len(a.input.lines) > 0 => LowerType(a.inputType) # "curl"}
       \/ /\ callee = "ValidateRequest"
          /\ callArgs \in [req : RequestsToValidate]
       \/ /\ callee = "extractURL"
          /\ callArgs \in [args : CurlCommands]
       \/ /\ callee \in {"extractBody", "extractHeaders"}
          /\ callArgs \in [args : FlagCommands]

CallParseRequest ==
    /\ callee = "RequestService.ParseRequest"
    /\ ~returned
    /\ callRet' = ParseRequest(callArgs.input)
    /\ returned' = TRUE
    /\ UNCHANGED <<callee, callArgs, clientVars>>
    /\ UNCHANGED batchVars
    /\ UNCHANGED retryVars

CallParseRequestWithType ==
    /\ callee = "RequestService.ParseRequestWithType"
    /\ ~returned
    /\ callRet' = ParseRequestWithType(callArgs.input, callArgs.inputType)
    /\ returned' = TRUE
    /\ UNCHANGED <<callee, callArgs, clientVars>>
    /\ UNCHANGED batchVars
    /\ UNCHANGED retryVars

CallValidateRequest ==
    /\ callee = "ValidateRequest"
    /\ ~returned
    /\ callRet' = ValidateRequest(callArgs.req)
    /\ returned' = TRUE
    /\ UNCHANGED <<callee, callArgs, clientVars>>
    /\ UNCHANGED batchVars
    /\ UNCHANGED retryVars

CallExtractURL ==
    /\ callee = "extractURL"
    /\ ~returned
    /\ callRet' = extractURL(callArgs.args)
    /\ returned' = TRUE
    /\ UNCHANGED <<callee, callArgs, clientVars>>
    /\ UNCHANGED batchVars
    /\ UNCHANGED retryVars

CallExtractBody ==
    /\ callee = "extractBody"
    /\ ~returned
    /\ callRet' = extractBody(callArgs.args)
    /\ returned' = TRUE
    /\ UNCHANGED <<callee, callArgs, clientVars>>
    /\ UNCHANGED batchVars
    /\ UNCHANGED retryVars

CallExtractHeaders ==
    /\ callee = "extractHeaders"
    /\ ~returned
    /\ callRet' = extractHeaders(callArgs.args)
    /\ returned' = TRUE
    /\ UNCHANGED <<callee, callArgs, clientVars>>
    /\ UNCHANGED batchVars
    /\ UNCHANGED retryVars

---------------------------------------------------------------------------
(* Python code generation: UnifiedRequestParser.GeneratePythonCode and      *)
(* parseURLAndParams. A URL is here the sequence of its pieces, the          *)
(* separators "?", "&" and "=" among them; the code is the sequence of its   *)
(* lines.                                                                    *)

\* strings.Split(s, sep) on a sequence of pieces
RECURSIVE Split(_, _)
Split(s, sep) ==
    IF \A i \in 1..Len(s) : s[i] # sep THEN <<s>>
    ELSE LET at == CHOOSE i \in 1..Len(s) : s[i] = sep /\ \A j \in 1..(i - 1) : s[j] # sep
         IN  <<SubSeq(s, 1, at - 1)>> \o Split(SubSeq(s, at + 1, Len(s)), sep)

\* the loop of parseURLAndParams over the first n pairs
RECURSIVE queryParamsUpTo(_, _)
queryParamsUpTo(paramPairs, n) ==
    IF n = 0 THEN EmptyMap
    ELSE LET queryParams == queryParamsUpTo(paramPairs, n - 1)
             keyValue == Split(paramPairs[n], "=")
         IN  IF Len(keyValue) = 2 THEN MapSet(queryParams, keyValue[1], keyValue[2])
             ELSE queryParams

parseURLAndParams(fullURL) ==
    LET parts == Split(fullURL, "?")
    IN  [baseURL |-> parts[1],
         queryParams |-> IF Len(parts) > 1
                         THEN queryParamsUpTo(Split(parts[2], "&"),
                                              Len(Split(parts[2], "&")))
                         ELSE EmptyMap]

\* strings.ToLower on a method
LowerMethod(method) ==
    CASE method = "GET" -> "get"
      [] method = "POST" -> "post"
      [] OTHER -> method

\* the lines "key": "value", of a map written in the order o of its keys
EntryLines(m, o) == [i \in 1..Len(o) |-> <<"entry", o[i], m[o[i]]>>]

\* the orders range may visit the keys of m in, cookie headers left out of the lines
\* when skipCookie is set
RangeLines(m, skipCookie) ==
    {EntryLines(m, SelectSeq(o, LAMBDA k : ~(skipCookie /\ ToLower(k) = "cookie"))) :
        o \in KeyOrders(m)}

\* the body starts with { or [ once its spaces are trimmed
LooksLikeJSON(body) == body \in {"{}", " [1]"}

\* GeneratePythonCode: the codes a call may return, one for each order the
\* three range loops may visit their maps in
GeneratePythonCode(r) ==
    LET parsed == parseURLAndParams(r.URL)
        queryParams == parsed.queryParams
        dataParam == IF r.Body = "" THEN ""
                     ELSE IF LooksLikeJSON(r.Body) THEN "json=data" ELSE "data=data"
    IN  { <<<<"import requests">>>>
          \o (IF r.Headers # EmptyMap THEN <<<<"headers = {">>>> \o h \o <<<<"}">>>> ELSE <<>>)
          \o (IF r.Cookies # EmptyMap THEN <<<<"cookies = {">>>> \o c \o <<<<"}">>>> ELSE <<>>)
          \o << <<"url =", parsed.baseURL>> >>
          \o (IF queryParams # EmptyMap THEN <<<<"params = {">>>> \o q \o <<<<"}">>>> ELSE <<>>)
          \o (IF r.Body # "" THEN << <<"data =", r.Body>> >> ELSE <<>>)
          \o << <<"response = requests.", LowerMethod(r.Method), "(url">>
                 \o (IF r.Headers # EmptyMap THEN <<", headers=headers">> ELSE <<>>)
                 \o (IF r.Cookies # EmptyMap THEN <<", cookies=cookies">> ELSE <<>>)
                 \o (IF queryParams # EmptyMap THEN <<", params=params">> ELSE <<>>)
                 \o (IF dataParam # "" THEN <<dataParam>> ELSE <<>>)
                 \o <<")">> >>
          \o << <<"print(response.text)">>, <<"print(response)">> >> :
          h \in RangeLines(r.Headers, TRUE), c \in RangeLines(r.Cookies, FALSE),
          q \in RangeLines(queryParams, FALSE) }

\* the URLs handed to parseURLAndParams
URLs == UNION {[1..n -> {"https://h/p", "?", "&", "=", "a", "1"}] : n \in 1..MaxURLPieces}

\* the requests handed to GeneratePythonCode
PythonRequests ==
    [Method : {"GET", "POST"},
     URL : {<<"https://h/p">>, <<"https://h/p", "?", "a", "=", "1">>,
            <<"https://h/p", "?", "a", "=", "1", "&", "b", "=", "1">>},
     Headers : UNION {[D -> {"v"}] : D \in SUBSET {"X-A", "User-Agent", "Cookie"}},
     Cookies : UNION {[D -> {"v"}] : D \in SUBSET {"sid", "tok"}},
     Body : {"", "a=1", "{}"}]

\* a caller holds the arguments of one call; GeneratePythonCode is called
\* twice on them
InitPython ==
    /\ ServiceIdle
    /\ returned = FALSE
    /\ callRet = <<>>
    /\ \/ /\ callee = "parseURLAndParams"
          /\ callArgs \in [fullURL : URLs]
       \/ /\ callee = "GeneratePythonCode"
          /\ callArgs \in [req : PythonRequests]

CallParseURLAndParams ==
    /\ callee = "parseURLAndParams"
    /\ ~returned
    /\ callRet' = parseURLAndParams(callArgs.fullURL)
    /\ returned' = TRUE
    /\ UNCHANGED <<callee, callArgs, clientVars>>
    /\ UNCHANGED batchVars
    /\ UNCHANGED retryVars

\* one call of GeneratePythonCode; callRet holds the codes returned so far
CallGeneratePythonCode ==
    /\ callee = "GeneratePythonCode"
    /\ ~returned
    /\ \E code \in GeneratePythonCode(callArgs.req) : callRet' = Append(callRet, code)
    /\ returned' = (Len(callRet) = 1)
    /\ UNCHANGED <<callee, callArgs, clientVars>>
    /\ UNCHANGED batchVars
    /\ UNCHANGED retryVars

---------------------------------------------------------------------------
(* Specifications *)

Init ==
    /\ ServiceIdle
    /\ callee = ""
    /\ callArgs = <<>>
    /\ callRet = <<>>
    /\ returned = FALSE

Next ==
    \/ TestFieldNecessity
    \/ ProbeOriginal
    \/ HeaderStep
    \/ CookieStep
    \/ Finish
    \/ Return

Spec == Init /\ [][Next]_vars

\* the same service with a caller that may cancel the context of a running call
NextCancel ==
    \/ Next
    \/ Cancel

SpecCancel == Init /\ [][NextCancel]_vars

\* the service against a deterministic server, with a user who tries a request
\* after the batch
NextSingle ==
    \/ TestFieldNecessityDeterministic
    \/ ProbeOriginal
    \/ HeaderStep
    \/ CookieStep
    \/ Finish
    \/ Return
    \/ TestSingleRequest

SpecSingle == Init /\ [][NextSingle]_vars

\* the batch against a deterministic server
NextDeterministic ==
    \/ TestFieldNecessityDeterministic
    \/ ProbeOriginal
    \/ HeaderStep
    \/ CookieStep
    \/ Finish
    \/ Return

SpecDeterministic == Init /\ [][NextDeterministic]_vars

\* the HTTP engine's retry loop alone
NextRetry ==
    \/ RetryCall
    \/ RetryAttempt
    \/ RetryReturn

SpecRetry == Init /\ [][NextRetry]_vars

\* the validator alone, called once on each input
NextValidator ==
    \/ CallEvaluateConfig
    \/ CallCheckTextMatching
    \/ CallCheckLengthRange

SpecValidator == InitValidator /\ [][NextValidator]_vars

\* the expression checks alone, called once on each expression
NextExpression ==
    \/ CallValidateExpression
    \/ CallEvaluateExpression
    \/ CallRequestServiceValidateExpression

SpecExpression == InitExpression /\ [][NextExpression]_vars

\* one service called again and again with timeouts of the caller's choice
NextTimeout ==
    \/ TimedTestSingleRequest
    \/ TimedTestFieldNecessity

SpecTimeout == Init /\ [][NextTimeout]_vars

\* the code generator alone
NextPython ==
    \/ CallParseURLAndParams
    \/ CallGeneratePythonCode

SpecPython == InitPython /\ [][NextPython]_vars

\* the parsers alone, called once on each input
NextParser ==
    \/ CallParseRequest
    \/ CallParseRequestWithType
    \/ CallValidateRequest
    \/ CallExtractURL
    \/ CallExtractBody
    \/ CallExtractHeaders

SpecParser == InitParser /\ [][NextParser]_vars

---------------------------------------------------------------------------
(* Properties *)

IsUserAgent(h) == ToLower(h) = "user-agent"

\* the batch has returned a BatchTestResult and a nil error
Succeeded == pc = "done" /\ retErr = NoError

\* the outcome of a probe is validation = true
Passes(cfg, out) ==
    /\ ~out.err
    /\ EvaluateConfig(cfg, out).err = NoError
    /\ EvaluateConfig(cfg, out).ok

\* the probes sent for a field
ProbesOf(type, name) ==
    {i \in 1..Len(sent) : sent[i].FieldType = type /\ sent[i].FieldName = name}

\* the header is one the PreserveUserAgent option keeps without a probe
Preserved(h) == IsUserAgent(h) /\ config.PreserveUserAgent

\* the probe of the original request has come back as a failure
OriginalProbeFailed == Len(sent) >= 1 /\ ~Passes(config, sent[1].Out)

\* C1: when the probe of the original request fails (transport error, validator
\* error or validation false) the call has returned an error with
\* OriginalPassed = false, and the original probe is the only probe ever sent:
\* no header or cookie has a probe or a result.
C1_OriginalFailureAborts ==
    OriginalProbeFailed =>
        /\ pc = "done"
        /\ retErr # NoError
        /\ ~result.OriginalPassed
        /\ Len(sent) = 1
        /\ cumulativeResults = NoResults
        /\ legacyResults = NoLegacy

\* the original request has fields to probe, its probe got a response, and the
\* validator's verdict on it was false
C1_Witness ==
    /\ OriginalProbeFailed
    /\ pc = "done"
    /\ ~sent[1].Out.err
    /\ EvaluateConfig(config, sent[1].Out).err = NoError
    /\ DOMAIN req.Headers # {}
    /\ DOMAIN req.Cookies # {}

\* C2: the simplified request of a successful batch has headers and cookies
\* that are subsets of the original's, each with its original value, and the
\* original's method, URL, body, content type and query parameters.
C2_SimplifiedIsSubRequest ==
    Succeeded =>
        LET s == result.SimplifiedRequest
        IN  /\ DOMAIN s.Headers \subseteq DOMAIN req.Headers
            /\ \A h \in DOMAIN s.Headers : s.Headers[h] = req.Headers[h]
            /\ DOMAIN s.Cookies \subseteq DOMAIN req.Cookies
            /\ \A c \in DOMAIN s.Cookies : s.Cookies[c] = req.Cookies[c]
            /\ s.Method = req.Method
            /\ s.URL = req.URL
            /\ s.Body = req.Body
            /\ s.ContentType = req.ContentType
            /\ s.QueryParams = req.QueryParams

\* a successful batch that dropped a header and kept a header and a cookie,
\* for a request with query parameters
C2_Witness ==
    /\ Succeeded
    /\ req.QueryParams # EmptyMap
    /\ DOMAIN result.SimplifiedRequest.Headers # {}
    /\ DOMAIN result.SimplifiedRequest.Headers # DOMAIN req.Headers
    /\ DOMAIN result.SimplifiedRequest.Cookies # {}

\* C3 as claimed: the simplified request of a successful batch has the key set
\* of the final working state S, for headers and for cookies.
C3_SimplifiedKeysAreStateKeys ==
    Succeeded =>
        /\ DOMAIN result.SimplifiedRequest.Headers = DOMAIN S.Headers
        /\ DOMAIN result.SimplifiedRequest.Cookies = DOMAIN S.Cookies

\* the User-Agent headers that were probed and found optional
OptionalUserAgents ==
    {h \in DOMAIN req.Headers :
        IsUserAgent(h) /\ \E i \in ProbesOf("header", h) : sent[i].Success}

\* C3 amended: the simplified request of a successful batch has the cookies of
\* the final working state S, and the headers of S other than a User-Agent that
\* was probed and found optional, which stays in S with the empty value.
C3_SimplifiedKeysAreStateKeysButOptionalUA ==
    Succeeded =>
        /\ DOMAIN result.SimplifiedRequest.Headers
              = DOMAIN S.Headers \ OptionalUserAgents
        /\ DOMAIN result.SimplifiedRequest.Cookies = DOMAIN S.Cookies
        /\ \A h \in OptionalUserAgents : h \in DOMAIN S.Headers /\ S.Headers[h] = ""

\* a successful batch in which a User-Agent was probed and found optional while
\* another header was found required and a cookie was found optional
C3_Witness ==
    /\ Succeeded
    /\ OptionalUserAgents # {}
    /\ DOMAIN result.SimplifiedRequest.Headers # {}
    /\ DOMAIN S.Cookies # DOMAIN req.Cookies

\* the request the user tried after the batch passed validation
SinglePassed == single # NoSingle /\ Passes(config, single.Out)

\* C4 as claimed: against a deterministic server no request made of fewer of
\* the original's fields than the simplified request passes validation.
C4_SimplifiedIsSmallest ==
    (Succeeded /\ deterministic /\ SinglePassed) =>
        FieldCount(single.Request) >= FieldCount(result.SimplifiedRequest)

\* the same, for a batch that preserves no User-Agent and a server that has
\* never answered a request worse than a request with a subset of its fields
MonotoneSoFar ==
    \A i \in 1..Len(sent) :
        (/\ DOMAIN single.Request.Headers \subseteq DOMAIN sent[i].Wire.Header
         /\ DOMAIN single.Request.Cookies \subseteq DOMAIN sent[i].Wire.Cookies
         /\ SinglePassed)
            => Passes(config, sent[i].Out)

C4_SmallestOnMonotoneServers ==
    (/\ Succeeded
     /\ deterministic
     /\ SinglePassed
     /\ ~config.PreserveUserAgent
     /\ \A h \in DOMAIN req.Headers : ~IsUserAgent(h)
     /\ MonotoneSoFar) =>
        FieldCount(single.Request) >= FieldCount(result.SimplifiedRequest)

\* the request of probe i carries every field of the simplified request other
\* than the field under test, with its original value
CarriesTheOtherKeptFields(i) ==
    LET s == result.SimplifiedRequest
        r == sent[i].Request
    IN  /\ \A g \in DOMAIN s.Headers :
              (sent[i].FieldType = "header" /\ sent[i].FieldName = g)
              \/ (g \in DOMAIN r.Headers /\ r.Headers[g] = req.Headers[g])
        /\ \A g \in DOMAIN s.Cookies :
              (sent[i].FieldType = "cookie" /\ sent[i].FieldName = g)
              \/ (g \in DOMAIN r.Cookies /\ r.Cookies[g] = req.Cookies[g])

\* the request of probe i does not carry the header under test (a User-Agent
\* under test is carried with the empty value, which is not sent)
DropsHeader(i, h) ==
    LET r == sent[i].Request
    IN  IF IsUserAgent(h)
        THEN h \in DOMAIN r.Headers /\ r.Headers[h] = ""
        ELSE h \notin DOMAIN r.Headers

\* C4 amended: the simplified request is minimal only with respect to the
\* probes made. Every header it keeps, other than a preserved User-Agent, and
\* every cookie it keeps has exactly one probe; that probe sent a request
\* without the field and with every other kept field, and it did not pass.
\* Every field it drops has a probe that passed.
C4_SimplifiedIsMinimalForItsProbes ==
    (Succeeded /\ deterministic) =>
        LET s == result.SimplifiedRequest
        IN  /\ \A h \in DOMAIN s.Headers :
                  Preserved(h)
                  \/ /\ Cardinality(ProbesOf("header", h)) = 1
                     /\ \A i \in ProbesOf("header", h) :
                           /\ ~Passes(config, sent[i].Out)
                           /\ DropsHeader(i, h)
                           /\ CarriesTheOtherKeptFields(i)
            /\ \A c \in DOMAIN s.Cookies :
                  /\ Cardinality(ProbesOf("cookie", c)) = 1
                  /\ \A i \in ProbesOf("cookie", c) :
                        /\ ~Passes(config, sent[i].Out)
                        /\ c \notin DOMAIN sent[i].Request.Cookies
                        /\ CarriesTheOtherKeptFields(i)
            /\ \A h \in DOMAIN req.Headers \ DOMAIN s.Headers :
                  \E i \in ProbesOf("header", h) : Passes(config, sent[i].Out)
            /\ \A c \in DOMAIN req.Cookies \ DOMAIN s.Cookies :
                  \E i \in ProbesOf("cookie", c) : Passes(config, sent[i].Out)

\* a successful batch against a deterministic server that kept two cookies and
\* dropped a header, after which a request with fewer fields than the
\* simplified request passed validation
C4_Witness ==
    /\ Succeeded
    /\ deterministic
    /\ ~config.PreserveUserAgent
    /\ Cardinality(DOMAIN result.SimplifiedRequest.Cookies) = 2
    /\ DOMAIN req.Headers # {}
    /\ DOMAIN result.SimplifiedRequest.Headers = {}
    /\ SinglePassed
    /\ FieldCount(single.Request) < FieldCount(result.SimplifiedRequest)

\* C5: with PreserveUserAgent set, each header of the pool whose name is
\* User-Agent in any case is in the simplified request of a successful batch
\* exactly when it is in the original request, and there with its original
\* value; so the simplified request has a User-Agent iff the original has one.
C5_PreservedUserAgentIsKept ==
    (Succeeded /\ config.PreserveUserAgent) =>
        LET s == result.SimplifiedRequest
        IN  /\ \A h \in HeaderPool :
                  IsUserAgent(h) =>
                      /\ h \in DOMAIN s.Headers <=> h \in DOMAIN req.Headers
                      /\ h \in DOMAIN s.Headers => s.Headers[h] = req.Headers[h]
            /\ (\E h \in DOMAIN s.Headers : IsUserAgent(h))
                  <=> (\E h \in DOMAIN req.Headers : IsUserAgent(h))

\* a successful batch with PreserveUserAgent set on a request with a lower-case
\* user-agent header, in which the server let every probed field go
C5_Witness ==
    /\ Succeeded
    /\ config.PreserveUserAgent
    /\ "user-agent" \in DOMAIN req.Headers
    /\ Len(sent) >= 3
    /\ \A i \in 2..Len(sent) : sent[i].Success
    /\ DOMAIN result.SimplifiedRequest.Headers = {"user-agent"}

\* C6: a successful batch has sent exactly one probe for the original request,
\* one for each header other than a preserved User-Agent and one for each
\* cookie; a preserved User-Agent is recorded as required and has no probe.
C6_ProbeCount ==
    Succeeded =>
        /\ Len(sent) = 1 + Cardinality({h \in DOMAIN req.Headers :
                                           ~(IsUserAgent(h) /\ config.PreserveUserAgent)})
                         + Cardinality(DOMAIN req.Cookies)
        /\ \A h \in DOMAIN req.Headers :
              IF IsUserAgent(h) /\ config.PreserveUserAgent
              THEN /\ ProbesOf("header", h) = {}
                   /\ result.CumulativeResults.Headers[h].Required
              ELSE Cardinality(ProbesOf("header", h)) = 1
        /\ \A c \in DOMAIN req.Cookies : Cardinality(ProbesOf("cookie", c)) = 1

\* a successful batch with a preserved User-Agent, another header and a cookie:
\* three probes for three fields
C6_Witness ==
    /\ Succeeded
    /\ config.PreserveUserAgent
    /\ \E h \in DOMAIN req.Headers : IsUserAgent(h)
    /\ \E h \in DOMAIN req.Headers : ~IsUserAgent(h)
    /\ DOMAIN req.Cookies # {}
    /\ FieldCount(req) = 3
    /\ Len(sent) = 3

\* C7 as claimed, read in the code's favour: once the caller has cancelled the
\* context of a running call, at most the one probe in flight is still sent,
\* and a call cancelled before its last probe came back returns with an error
\* and without a simplified request.
C7_CancellationStopsTheBatch ==
    cancelledAt >= 0 =>
        /\ Len(sent) <= cancelledAt + 1
        /\ (pc = "done" /\ Len(sent) > cancelledAt) =>
              /\ retErr # NoError
              /\ result.SimplifiedRequest = NilRequest

\* C8: a field probe that ends in a transport or validator error does not end
\* the batch: the call's error stays nil, the field is recorded as required with
\* the error message and is back in the working state with its original value,
\* and at the end every field other than a preserved User-Agent has been
\* probed. A probed field is required iff its probe did not pass validation.
C8_FieldProbeErrorNeverAborts ==
    Len(sent) >= 2 =>
        /\ retErr = NoError
        /\ \A i \in 2..Len(sent) :
              LET p == sent[i]
                  isHeader == p.FieldType = "header"
                  rs == IF isHeader THEN cumulativeResults.Headers
                        ELSE cumulativeResults.Cookies
                  st == IF isHeader THEN S.Headers ELSE S.Cookies
                  orig == IF isHeader THEN req.Headers ELSE req.Cookies
              IN  /\ p.FieldName \in DOMAIN rs
                  /\ rs[p.FieldName].Required <=> ~Passes(config, p.Out)
                  /\ ~Passes(config, p.Out) =>
                        /\ p.FieldName \in DOMAIN st
                        /\ st[p.FieldName] = orig[p.FieldName]
                  /\ p.Out.err =>
                        rs[p.FieldName].TestResult.Error = ErrRetryExhausted
                  /\ (~p.Out.err /\ EvaluateConfig(config, p.Out).err # NoError) =>
                        rs[p.FieldName].TestResult.Error
                            = EvaluateConfig(config, p.Out).err
        /\ pc = "done" =>
              /\ \A h \in DOMAIN req.Headers :
                    Preserved(h) \/ ProbesOf("header", h) # {}
              /\ \A c \in DOMAIN req.Cookies : ProbesOf("cookie", c) # {}

\* a finished batch in which the probe of a header ended in a transport error
\* and the fields after it were probed, one of them found optional
C8_Witness ==
    /\ pc = "done"
    /\ Len(sent) = 4
    /\ sent[2].Out.err
    /\ sent[2].FieldType = "header"
    /\ sent[4].FieldType = "cookie"
    /\ sent[4].Success

\* the configuration enables no validation mode
NoModeEnabled(cfg) ==
    /\ ~(cfg.UseCustomExpr /\ cfg.Expression # <<>>)
    /\ ~cfg.TextMatching.Enabled
    /\ ~cfg.LengthRange.Enabled

\* the original request got a response from the server
OriginalAnswered == Len(sent) >= 1 /\ ~sent[1].Out.err

\* C9 as claimed: with no validation mode enabled, whatever the status of the
\* original request's response, the batch ends with the validator's
\* configuration error and only the original request was sent.
C9_NoModeAbortsWithConfigError ==
    (NoModeEnabled(config) /\ OriginalAnswered) =>
        /\ pc = "done"
        /\ retErr = ErrConfig
        /\ Len(sent) = 1

\* C9 amended: with no validation mode enabled the batch ends with an error and
\* only the original request was sent; the error is the validator's
\* configuration error when the response status is in [200, 300), and the
\* original-request-did-not-pass error for any other status.
C9_NoModeAbortsByStatus ==
    (NoModeEnabled(config) /\ OriginalAnswered) =>
        /\ pc = "done"
        /\ Len(sent) = 1
        /\ ~result.OriginalPassed
        /\ cumulativeResults = NoResults
        /\ retErr = IF sent[1].Out.StatusCode >= 200 /\ sent[1].Out.StatusCode < 300
                    THEN ErrConfig
                    ELSE ErrOriginalNotPassed

\* a batch with no validation mode on a request with fields to probe, whose
\* original request was answered with status 200
C9_Witness ==
    /\ NoModeEnabled(config)
    /\ OriginalAnswered
    /\ sent[1].Out.StatusCode = 200
    /\ FieldCount(req) >= 2
    /\ pc = "done"

\* C10 as claimed: a call configured with maxRetries >= 0 makes at most
\* maxRetries + 1 attempts and sleeps 100 ms * 2^attempt after each failed
\* attempt but the last; a call that returns a response made no attempt after
\* it, and a call that returns an error made exactly maxRetries + 1 attempts.
C10_AtMostMaxRetriesPlusOneAttempts ==
    rpc # "idle" =>
        /\ attemptsMade <= rMax + 1
        /\ \A i \in 1..Len(slept) : slept[i] = 100 * Shl1(i - 1)
        /\ (rpc = "returned" /\ ~rRet.err) => Len(slept) = attemptsMade - 1
        /\ (rpc = "returned" /\ rRet.err) =>
              /\ attemptsMade = rMax + 1
              /\ Len(slept) = rMax

\* the progress events that carry a field result, in the order of delivery
FieldEvents == SelectSeq(events, LAMBDA e : e.FieldResult # <<>>)

\* the field of a field event, and of a probe
EventField(e) == <<e.FieldResult[1].FieldType, e.FieldResult[1].FieldName>>
ProbeField(p) == <<p.FieldType, p.FieldName>>

\* the field events of the fields that were probed (a kept User-Agent is not)
ProbedFieldEvents == SelectSeq(FieldEvents, LAMBDA e : e.Message[1] # "header kept")

\* the probes of the fields, the probe of the original request left out
FieldProbes == SelectSeq(sent, LAMBDA p : p.FieldType # "original")

\* C11: over the progress events of one call, completedSteps never decreases
\* and never exceeds totalSteps, and the events that carry a field result come
\* in the order in which the fields were probed, all headers before all cookies.
C11_ProgressIsMonotoneAndInProbeOrder ==
    /\ \A i, j \in 1..Len(events) :
          i < j => events[i].CompletedSteps <= events[j].CompletedSteps
    /\ \A i \in 1..Len(events) : events[i].CompletedSteps <= events[i].TotalSteps
    /\ Len(ProbedFieldEvents) = Len(FieldProbes)
    /\ \A i \in 1..Len(FieldProbes) :
          EventField(ProbedFieldEvents[i]) = ProbeField(FieldProbes[i])
    /\ \A i, j \in 1..Len(FieldEvents) :
          i < j => ~(/\ EventField(FieldEvents[i])[1] = "cookie"
                     /\ EventField(FieldEvents[j])[1] = "header")

\* a successful batch over two headers and a cookie, all three probed: the last
\* event reports every step completed
C11_Witness ==
    /\ Succeeded
    /\ Cardinality(DOMAIN req.Headers) = 2
    /\ Cardinality(DOMAIN req.Cookies) = 1
    /\ Len(FieldProbes) = 3
    /\ Len(FieldEvents) = 3
    /\ events[Len(events)].CompletedSteps = 4
    /\ events[Len(events)].TotalSteps = 4

\* C12 as stated: a successful call delivers 1 + |headers| + |cookies| events.
C12_OneEventPerStep ==
    Succeeded => Len(events) = 1 + FieldCount(req)

\* C12: a successful call delivers 2 + 2 * (|headers| + |cookies|) events: the
\* "testing original" event, then for each field an event that announces it
\* (no field result, the steps completed so far) followed by an event that
\* carries its field result (one step more), then a final "done" event.
C12_TwoEventsPerFieldPlusFirstAndLast ==
    Succeeded =>
        /\ Len(events) = 2 + 2 * FieldCount(req)
        /\ Len(FieldEvents) = FieldCount(req)
        /\ events[1].Message[1] = "testing original"
        /\ events[1].FieldResult = <<>>
        /\ events[1].CompletedSteps = 0
        /\ events[Len(events)].Message[1] = "done"
        /\ events[Len(events)].FieldResult = <<>>
        /\ events[Len(events)].CompletedSteps = 1 + FieldCount(req)
        /\ \A k \in 1..FieldCount(req) :
              /\ events[2 * k].FieldResult = <<>>
              /\ events[2 * k].CompletedSteps = k
              /\ events[2 * k + 1].FieldResult # <<>>
              /\ events[2 * k + 1].CompletedSteps = k + 1
              /\ events[2 * k + 1].FieldResult[1].FieldName = events[2 * k].Message[2]

\* a successful batch over three fields has delivered eight events
C12_Witness ==
    /\ Succeeded
    /\ FieldCount(req) = 3
    /\ Len(events) = 8
    /\ Len(FieldEvents) = 3

\* a call of the validator operation f has returned
Returned(f) == callee = f /\ returned

\* the configuration asks for the custom expression
UsesExpression(cfg) == cfg.UseCustomExpr /\ cfg.Expression # <<>>

\* C13: EvaluateConfig decides by the first applicable rule: (1) a non-empty
\* custom expression gives the result of the expression whatever the status (an
\* expression asking for status 300 is true of a 300 response); (2) a status of
\* 199 or 300 gives false without error, 200 and 299 go on; (3) text matching,
\* if enabled, decides even when the length range is enabled too; (4) the
\* length range, if enabled, decides; (5) otherwise the configuration error.
C13_FirstApplicableRuleDecides ==
    Returned("EvaluateConfig") =>
        LET cfg == callArgs.config
            r == callArgs.response
        IN  IF UsesExpression(cfg)
                THEN /\ callRet = EvaluateExpression(cfg.Expression, r)
                     /\ cfg.Expression = ExprStatusIs300 =>
                            callRet = [ok |-> r.StatusCode = 300, err |-> NoError]
            ELSE IF r.StatusCode \in {199, 300}
                THEN callRet = [ok |-> FALSE, err |-> NoError]
            ELSE IF cfg.TextMatching.Enabled
                THEN callRet = [ok |-> checkTextMatching(cfg.TextMatching, r.Body),
                                err |-> NoError]
            ELSE IF cfg.LengthRange.Enabled
                THEN callRet = [ok |-> checkLengthRange(cfg.LengthRange, r.Body),
                                err |-> NoError]
            ELSE callRet = [ok |-> FALSE, err |-> ErrConfig]

\* a custom expression asking for status 300 has passed a 300 response although
\* text matching and the length range are enabled as well
C13_Witness ==
    /\ Returned("EvaluateConfig")
    /\ UsesExpression(callArgs.config)
    /\ callArgs.config.Expression = ExprStatusIs300
    /\ callArgs.config.TextMatching.Enabled
    /\ callArgs.config.LengthRange.Enabled
    /\ callArgs.response.StatusCode = 300
    /\ callRet.ok

\* every non-empty needle of the list is in the body, both lowercased unless
\* the match is case sensitive
EveryNonEmptyNeedleIsContained(tm, body) ==
    \A i \in 1..Len(tm.Texts) :
        tm.Texts[i] # <<>> =>
            IF tm.CaseSensitive THEN Contains(body, tm.Texts[i])
            ELSE Contains(LowerText(body), LowerText(tm.Texts[i]))

\* C14: in mode 'all' text matching with a non-empty list passes iff every
\* non-empty needle is contained in the body, empty needles not counting; with
\* an empty list it passes iff the body is not empty.
C14_AllModeIgnoresEmptyNeedles ==
    (Returned("checkTextMatching") /\ callArgs.config.MatchMode = "all") =>
        IF Len(callArgs.config.Texts) = 0
        THEN callRet = (Len(callArgs.responseBody) > 0)
        ELSE callRet = EveryNonEmptyNeedleIsContained(callArgs.config,
                                                      callArgs.responseBody)

\* C15: the length range passes iff length >= minLength and (maxLength <= 0 or
\* length <= maxLength); with minLength 10 and maxLength 100 a body of 9 bytes
\* fails, 10 passes, 100 passes and 101 fails.
C15_LengthRange ==
    Returned("checkLengthRange") =>
        LET lr == callArgs.config
            length == Len(callArgs.responseBody)
        IN  /\ callRet = (/\ length >= lr.MinLength
                          /\ (lr.MaxLength <= 0 \/ length <= lr.MaxLength))
            /\ (lr.MinLength = 10 /\ lr.MaxLength = 100) =>
                   /\ length = 9 => callRet = FALSE
                   /\ length = 10 => callRet = TRUE
                   /\ length = 100 => callRet = TRUE
                   /\ length = 101 => callRet = FALSE

\* the range 10..100 has refused a body of 101 bytes
C15_Witness ==
    /\ Returned("checkLengthRange")
    /\ callArgs.config.MinLength = 10
    /\ callArgs.config.MaxLength = 100
    /\ Len(callArgs.responseBody) = 101
    /\ callRet = FALSE

\* a 2xx response is judged by a length range with minLength 0 and maxLength 0
JudgedByZeroZeroRange ==
    /\ Returned("EvaluateConfig")
    /\ ~UsesExpression(callArgs.config)
    /\ ~callArgs.config.TextMatching.Enabled
    /\ callArgs.config.LengthRange = [Enabled |-> TRUE, MinLength |-> 0, MaxLength |-> 0]
    /\ callArgs.response.StatusCode \in {200, 299}

\* C16 as stated: with minLength 0 and maxLength 0 a 2xx response passes iff
\* its body is empty.
C16_ZeroZeroPassesOnlyTheEmptyBody ==
    JudgedByZeroZeroRange => (callRet.ok <=> Len(callArgs.response.Body) = 0)

\* C16: with minLength 0 and maxLength 0 (and neither a custom expression nor
\* text matching) a 2xx response passes whatever the length of its body:
\* maxLength 0 is no upper limit.
C16_ZeroZeroPassesEveryBody ==
    JudgedByZeroZeroRange => callRet = [ok |-> TRUE, err |-> NoError]

\* a body of 101 bytes has passed the range 0..0
C16_Witness ==
    /\ JudgedByZeroZeroRange
    /\ Len(callArgs.response.Body) = 101
    /\ callRet.ok

\* the expression uses an identifier other than response/true/false/nil, a
\* selector that is not response.<allowed field>, a call whose target is neither
\* an allowed free function nor response.json, or an operator outside
\* ==, !=, <, <=, >, >=, &&, ||, !
UsesDisallowedConstruct(e) ==
    \E i \in 1..Len(e) :
        \/ e[i].k = "id" /\ e[i].s \notin {"response", "true", "false", "nil"}
        \/ e[i].k = "sel" /\ e[i].s \notin allowedFields
        \/ /\ e[i].k \in CallKinds
           /\ ~(e[i].k = "callid" /\ e[i].s \in allowedFunctions)
           /\ ~(e[i].k = "callsel" /\ e[i].s = "json")
        \/ e[i].k = "op"
           /\ e[i].s \notin {"==", "!=", "<", "<=", ">", ">=", "&&", "||", "!"}

\* the errors of the static check
StaticErrors == {ErrExprEmpty, ErrExprSyntax, ErrExprNotAllowed}

\* C17: the static check answers every expression that uses a disallowed
\* identifier, selector, call target (in whatever form) or operator with an
\* error, and EvaluateExpression returns that error instead of evaluating.
C17_StaticCheckRejectsEveryDisallowedConstruct ==
    /\ (Returned("SafeValidator.ValidateExpression")
           /\ UsesDisallowedConstruct(callArgs.expression))
          => callRet \in StaticErrors
    /\ (Returned("SafeValidator.EvaluateExpression")
           /\ UsesDisallowedConstruct(callArgs.expression))
          => callRet.err \in StaticErrors

\* C18: RequestService.ValidateExpression returns ok only for an expression
\* the static check of the validator accepts.
C18_FacadeAcceptsOnlyWhatTheStaticCheckAccepts ==
    (Returned("RequestService.ValidateExpression") /\ callRet = NoError)
        => ValidateExpression(callArgs.expression) = NoError

\* a parse operation of the facade has returned a request and no error
ParsedWithoutError ==
    /\ \/ Returned("RequestService.ParseRequest")
       \/ Returned("RequestService.ParseRequestWithType")
    /\ callRet.err = NoError

\* C19: a ParsedRequest returned without error by ParseRequest or
\* ParseRequestWithType has a method of the seven, a URL that begins with
\* http:// or https:// and non-nil headers, cookies and queryParams;
\* ValidateRequest returns an error for nil, an empty method, an empty URL, a
\* URL without such a scheme and a method outside the seven, and nil otherwise.
C19_ParsedRequestsAreValid ==
    /\ ParsedWithoutError =>
          /\ callRet.req # <<>>
          /\ callRet.req[1].Method \in {"GET", "POST", "PUT", "DELETE", "PATCH", "HEAD",
                                         "OPTIONS"}
          /\ HasHTTPScheme(callRet.req[1].URL)
          /\ callRet.req[1].Headers # <<>>
          /\ callRet.req[1].Cookies # <<>>
          /\ callRet.req[1].QueryParams # <<>>
    /\ Returned("ValidateRequest") =>
          (callRet # NoError <=>
              \/ callArgs.req = <<>>
              \/ callArgs.req[1].Method = ""
              \/ callArgs.req[1].URL = ""
              \/ ~HasHTTPScheme(callArgs.req[1].URL)
              \/ callArgs.req[1].Method \notin {"GET", "POST", "PUT", "DELETE", "PATCH",
                                                 "HEAD", "OPTIONS"})

\* the curl command  curl https://api.test/v1?x=1 -X post  has been parsed into
\* a POST request with its query parameter
C19_Witness ==
    /\ Returned("RequestService.ParseRequest")
    /\ callArgs.input.words = <<"curl", "https://api.test/v1?x=1", "-X", "post">>
    /\ callRet.err = NoError
    /\ callRet.req[1].Method = "POST"
    /\ callRet.req[1].URL = "https://api.test/v1?x=1"
    /\ callRet.req[1].QueryParams = << [q \in {"x"} |-> "1"] >>

\* the flags that take a value
ValueFlags == {"-H", "-X", "-b", "-d"}

\* the first word from position i on that is not curl, not a flag and not the
\* value of a flag before it
RECURSIVE FirstWordThatIsNoFlagValue(_, _)
FirstWordThatIsNoFlagValue(args, i) ==
    IF i > Len(args) THEN ""
    ELSE IF args[i] = "curl" THEN FirstWordThatIsNoFlagValue(args, i + 1)
    ELSE IF args[i] \in ValueFlags THEN FirstWordThatIsNoFlagValue(args, i + 2)
    ELSE IF HasDashPrefix(args[i]) THEN FirstWordThatIsNoFlagValue(args, i + 1)
    ELSE args[i]

\* C20: the curl parser takes as URL the first word that is neither curl, nor
\* a flag, nor the value of a preceding flag; the value of a -H, -X, -b or -d
\* before the URL is not taken as the URL.  (Stated for the commands in
\* which that word is an http or https URL.)
C20_URLIsFirstWordThatIsNoFlagValue ==
    (/\ Returned("extractURL")
     /\ HasHTTPScheme(FirstWordThatIsNoFlagValue(callArgs.args, 1)))
        => callRet = FirstWordThatIsNoFlagValue(callArgs.args, 1)

\* the positions in args of the given flags
FlagsAt(args, flags) == {i \in 1..Len(args) : args[i] \in flags}

\* every one of the given flags in args is followed by one of the given values,
\* and there are two of them at least
RepeatedWithValues(args, flags, values) ==
    /\ Cardinality(FlagsAt(args, flags)) >= 2
    /\ \A i \in FlagsAt(args, flags) : i + 1 <= Len(args) /\ args[i + 1] \in values

\* the value after the last of the given flags
LastValue(args, flags) ==
    args[(CHOOSE i \in FlagsAt(args, flags) : \A j \in FlagsAt(args, flags) : i >= j) + 1]

\* C21: when a flag is repeated in a curl command the last occurrence wins: of
\* two data flags the body is the value of the last, and a header name given
\* twice keeps the last value.
C21_RepeatedFlagLastWins ==
    /\ (/\ Returned("extractBody")
        /\ RepeatedWithValues(callArgs.args, {"-d", "--data"}, {"a=1", "b=2"}))
          => callRet = LastValue(callArgs.args, {"-d", "--data"})
    /\ (/\ Returned("extractHeaders")
        /\ RepeatedWithValues(callArgs.args, {"-H"}, {"X-A: 1", "X-A: 2"}))
          => callRet = [h \in {"X-A"} |->
                           SplitHeader(LastValue(callArgs.args, {"-H"}))[1].value]

\* the header half of C21 alone: a header name given twice keeps the last value
C21_RepeatedHeaderLastWins ==
    (/\ Returned("extractHeaders")
     /\ RepeatedWithValues(callArgs.args, {"-H"}, {"X-A: 1", "X-A: 2"}))
        => callRet = [h \in {"X-A"} |->
                         SplitHeader(LastValue(callArgs.args, {"-H"}))[1].value]

\* C22: the raw parser takes the first non-empty line as the request line, so
\* a raw request whose first non-empty line is a valid METHOD and an http(s)
\* URL parses to that method and URL, with or without empty lines before it.
C22_FirstNonEmptyLineIsTheRequestLine ==
    (/\ Returned("RequestService.ParseRequest")
     /\ IsRawRequest(callArgs.input)
     /\ HasHTTPScheme(callArgs.input.words[2])
     /\ parseQueryParams(callArgs.input.words[2]).err = NoError)
        => /\ callRet.err = NoError
           /\ callRet.req[1].Method = callArgs.input.words[1]
           /\ callRet.req[1].URL = callArgs.input.words[2]

\* C23: over any sequence of TestSingleRequest and TestFieldNecessity calls on
\* one service, the requests of a call go out with the call's config.timeout
\* when it is positive and with 30 seconds when it is not.
C23_TimeoutIsTheCallsOwn ==
    \A i \in 1..Len(calls) :
        calls[i].used = IF calls[i].timeout > 0 THEN calls[i].timeout
                        ELSE DefaultTimeout

\* the half of C23 that holds: it is so for every TestFieldNecessity call, and
\* for every TestSingleRequest call with a positive timeout
C23_TimeoutIsSetWhenGiven ==
    \A i \in 1..Len(calls) :
        (calls[i].op = "TestFieldNecessity" \/ calls[i].timeout > 0)
            => calls[i].used = IF calls[i].timeout > 0 THEN calls[i].timeout
                               ELSE DefaultTimeout

\* C24: GeneratePythonCode is stable: two calls on equal requests return the
\* same code, whatever the number of headers, cookies and query parameters.
C24_GeneratedCodeIsStable ==
    Returned("GeneratePythonCode") => callRet[1] = callRet[2]

\* the part of C24 that holds: the code is the same when no map has two
\* entries to write
C24_StableWithOneEntryEach ==
    (/\ Returned("GeneratePythonCode")
     /\ Cardinality({k \in DOMAIN callArgs.req.Headers : ToLower(k) # "cookie"}) <= 1
     /\ Cardinality(DOMAIN callArgs.req.Cookies) <= 1
     /\ Cardinality(DOMAIN parseURLAndParams(callArgs.req.URL).queryParams) <= 1)
        => callRet[1] = callRet[2]

\* the pieces of s before the first sep, and those after it
Before(s, sep) ==
    SubSeq(s, 1, (CHOOSE i \in 1..(Len(s) + 1) :
                     /\ i = Len(s) + 1 \/ s[i] = sep
                     /\ \A j \in 1..(i - 1) : s[j] # sep) - 1)
After(s, sep) == SubSeq(s, Len(Before(s, sep)) + 2, Len(s))

\* the pairs key=value of the query of a URL: the pieces between the "&" of
\* what follows the first "?", those with a "=" in them
QueryPairs(fullURL) ==
    LET pairs == Split(After(fullURL, "?"), "&")
    IN  {pairs[i] : i \in {n \in 1..Len(pairs) : \E j \in 1..Len(pairs[n]) : pairs[n][j] = "="}}

\* a URL of an address, one "?" and pairs with keys and values, no key twice
PlainQuery(fullURL) ==
    /\ fullURL[1] = "https://h/p"
    /\ Cardinality({i \in 1..Len(fullURL) : fullURL[i] = "?"}) = 1
    /\ \A pr \in QueryPairs(fullURL) :
           /\ Before(pr, "=") # <<>>
           /\ After(pr, "=") # <<>> /\ After(pr, "=")[1] # "="
    /\ \A p1, p2 \in QueryPairs(fullURL) : Before(p1, "=") = Before(p2, "=") => p1 = p2

\* C25: parseURLAndParams returns the part of the URL before the "?" as base
\* URL and a map that holds key -> value for every pair key=value of the
\* query between the "&", the empty map when the URL has no query.
C25_EveryPairIsInTheMap ==
    (Returned("parseURLAndParams") /\ PlainQuery(callArgs.fullURL))
        => /\ callRet.baseURL = Before(callArgs.fullURL, "?")
           /\ \A pr \in QueryPairs(callArgs.fullURL) :
                  /\ Before(pr, "=") \in DOMAIN callRet.queryParams
                  /\ callRet.queryParams[Before(pr, "=")] = After(pr, "=")

\* the part of C25 that holds: the base URL is the part before the first "?",
\* a URL without "?" gives the empty map, every pair with one "=" whose key
\* is not given again is in the map, and the code carries the base URL, the
\* parameters, the headers other than Cookie and the lowercased method
C25_PairsWithOneEqualsAreInTheMap ==
    /\ Returned("parseURLAndParams")
        => /\ callRet.baseURL = Before(callArgs.fullURL, "?")
           /\ (\A i \in 1..Len(callArgs.fullURL) : callArgs.fullURL[i] # "?")
                 => callRet.queryParams = EmptyMap
           /\ PlainQuery(callArgs.fullURL)
                 => \A pr \in QueryPairs(callArgs.fullURL) :
                        Len(Split(pr, "=")) = 2
                            => /\ Before(pr, "=") \in DOMAIN callRet.queryParams
                               /\ callRet.queryParams[Before(pr, "=")] = After(pr, "=")
    /\ Returned("GeneratePythonCode")
        => \A n \in 1..2 :
            LET code == callRet[n]
                r == callArgs.req
                Entry(from, key, value) ==
                    \E i \in 1..Len(code) :
                        /\ \E j \in 1..(i - 1) : code[j][1] = from
                        /\ code[i][1] = "entry"
                        /\ code[i][2] = key
                        /\ code[i][3] = value
            IN  /\ \E i \in 1..Len(code) :
                       code[i][1] = "url =" /\ code[i][2] = Before(r.URL, "?")
                /\ \A pr \in QueryPairs(r.URL) :
                       Entry("params = {", Before(pr, "="), After(pr, "="))
                /\ \A k \in DOMAIN r.Headers :
                       ToLower(k) # "cookie" => Entry("headers = {", k, r.Headers[k])
                /\ \E i \in 1..Len(code) :
                       /\ code[i][1] = "response = requests."
                       /\ code[i][2] = LowerMethod(r.Method)

\* every probe of a field so far has failed: no removal of a single field
\* from the original request passes
EveryRemovalFails ==
    \A i \in 2..Len(sent) : ~Passes(config, sent[i].Out)

\* C26: a batch on a request that is minimal already (a deterministic server,
\* and the removal of any one header or cookie makes validation fail) returns
\* a simplified request with the headers and the cookies of the input, with
\* PreserveUserAgent set or not.
C26_MinimalRequestIsAFixedPoint ==
    (Succeeded /\ deterministic /\ EveryRemovalFails) =>
        /\ result.SimplifiedRequest.Headers = req.Headers
        /\ result.SimplifiedRequest.Cookies = req.Cookies
        /\ \A i \in 2..Len(sent) :
              /\ FieldCount(sent[i].Request) >= FieldCount(req) - 1
              /\ \A h \in DOMAIN sent[i].Request.Headers :
                    h = sent[i].FieldName \/ sent[i].Request.Headers[h] = req.Headers[h]

\* a successful batch on a request with two headers, one of them a User-Agent
\* that is not preserved, and a cookie, in which every probe failed
C26_Witness ==
    /\ Succeeded
    /\ deterministic
    /\ EveryRemovalFails
    /\ ~config.PreserveUserAgent
    /\ Len(sent) = 4
    /\ \E h \in DOMAIN req.Headers : IsUserAgent(h)
    /\ DOMAIN req.Cookies # {}
    /\ result.SimplifiedRequest.Headers = req.Headers

\* the headers a request carries: createHTTPRequest sets every header of the
\* map but a User-Agent with the empty value
CarriedHeaders(r) ==
    {h \in DOMAIN r.Headers : ~(IsUserAgent(h) /\ r.Headers[h] = "")}

\* the fields of the given type whose probe, made before probe i, passed
PassedBefore(i, type) ==
    {sent[j].FieldName : j \in {k \in 2..(i - 1) : sent[k].FieldType = type
                                                  /\ Passes(config, sent[k].Out)}}

\* the field of the given type under test in probe i, if any
UnderTest(i, type) == IF sent[i].FieldType = type THEN {sent[i].FieldName} ELSE {}

\* C27: the request sent for the probe of a field carries exactly the
\* original's headers and cookies less that field and less every field whose
\* earlier probe passed, each with its original value: a field whose earlier
\* probe failed is carried again and a removal that passed is never undone.
C27_ProbeCarriesOriginalLessPassedRemovals ==
    \A i \in 2..Len(sent) :
        LET r == sent[i].Request
        IN  /\ CarriedHeaders(r)
                  = (CarriedHeaders(req) \ UnderTest(i, "header")) \ PassedBefore(i, "header")
            /\ \A h \in CarriedHeaders(r) : r.Headers[h] = req.Headers[h]
            /\ DOMAIN r.Cookies
                  = (DOMAIN req.Cookies \ UnderTest(i, "cookie")) \ PassedBefore(i, "cookie")
            /\ \A c \in DOMAIN r.Cookies : r.Cookies[c] = req.Cookies[c]
            /\ DOMAIN sent[i].Wire.Header = {CanonicalKey(h) : h \in CarriedHeaders(r)}
            /\ sent[i].Wire.Cookies = r.Cookies

\* four probes: a header's probe failed, a cookie's probe passed, and the
\* probe of the second cookie carried the header again and not the first cookie
C27_Witness ==
    /\ Len(sent) = 4
    /\ sent[2].FieldType = "header"
    /\ ~Passes(config, sent[2].Out)
    /\ sent[3].FieldType = "cookie"
    /\ Passes(config, sent[3].Out)
    /\ sent[4].FieldType = "cookie"
    /\ sent[2].FieldName \in DOMAIN sent[4].Request.Headers
    /\ sent[3].FieldName \notin DOMAIN sent[4].Request.Cookies

\* the probes of a User-Agent header
UserAgentProbes ==
    {i \in 2..Len(sent) : sent[i].FieldType = "header" /\ IsUserAgent(sent[i].FieldName)}

\* the User-Agent headers a request carries besides f
OtherUserAgents(r, f) == {h \in CarriedHeaders(r) : IsUserAgent(h) /\ h # f}

LastPassingProbe ==
    CHOOSE i \in 1..Len(sent) :
        /\ Passes(config, sent[i].Out)
        /\ \A j \in (i + 1)..Len(sent) : ~Passes(config, sent[j].Out)

\* C29: against a deterministic server, the simplified request of a
\* successful batch puts on the wire the headers and cookies of the most recent
\* probe that passed validation, so that it passes validation itself.
C29_SimplifiedRequestIsTheLastPassingProbe ==
    (Succeeded /\ deterministic) =>
        \A w \in createHTTPRequest(result.SimplifiedRequest) :
            w = sent[LastPassingProbe].Wire

\* no two headers of the request have one canonical name
NoTwoHeadersOfOneName(r) ==
    \A h, g \in DOMAIN r.Headers : CanonicalKey(h) = CanonicalKey(g) => h = g

\* the part of C29 that holds: it is so for a request in which no two headers
\* have one canonical name
C29_LastPassingProbeWithoutTwinHeaders ==
    (Succeeded /\ deterministic /\ NoTwoHeadersOfOneName(req)) =>
        /\ createHTTPRequest(result.SimplifiedRequest) # {}
        /\ \A w \in createHTTPRequest(result.SimplifiedRequest) :
               w = sent[LastPassingProbe].Wire

\* the legacy results hold one entry for each key of the map, and each entry
\* says of its field what the cumulative results say
OneEntryPerField(entries, original, cumulative) ==
    /\ Len(entries) = Cardinality(DOMAIN original)
    /\ {entries[i].FieldName : i \in 1..Len(entries)} = DOMAIN original
    /\ \A i \in 1..Len(entries) :
           /\ entries[i].FieldName \in DOMAIN cumulative
           /\ entries[i].IsRequired = cumulative[entries[i].FieldName].Required

\* C30: in the result of a successful batch headerResults has exactly one
\* entry for each original header and cookieResults one for each original
\* cookie, each entry's isRequired is the cumulative result's for the field,
\* and the last progress event has completedSteps = totalSteps =
\* |headers| + |cookies| + 1.
C30_OneLegacyResultPerField ==
    Succeeded =>
        /\ OneEntryPerField(result.HeaderResults, req.Headers,
                            result.CumulativeResults.Headers)
        /\ OneEntryPerField(result.CookieResults, req.Cookies,
                            result.CumulativeResults.Cookies)
        /\ \A i \in 1..Len(result.HeaderResults) :
               result.HeaderResults[i].FieldType = "header"
        /\ \A i \in 1..Len(result.CookieResults) :
               result.CookieResults[i].FieldType = "cookie"
        /\ events # <<>>
        /\ events[Len(events)].CompletedSteps = FieldCount(req) + 1
        /\ events[Len(events)].TotalSteps = FieldCount(req) + 1

\* a successful batch on a request with a preserved User-Agent, another
\* header and a cookie, in which one field was found optional and one required
C30_Witness ==
    /\ Succeeded
    /\ config.PreserveUserAgent
    /\ Len(result.HeaderResults) = 2
    /\ Len(result.CookieResults) = 1
    /\ \E i \in 1..2 : IsUserAgent(result.HeaderResults[i].FieldName)
    /\ \E i \in 1..2 : ~result.HeaderResults[i].IsRequired
    /\ result.CookieResults[1].IsRequired
    /\ events[Len(events)].CompletedSteps = 4

====
